---- MODULE Spec2Model ----
(***************************************************************************)
(* Model of cocotbext/axi/axi_master.py: the AXI4 master write engine      *)
(* (AxiMasterWrite), read engine (AxiMasterRead) and the facade            *)
(* (AxiMaster).  Every coroutine is modelled as a frame variable with a    *)
(* position (pc); one action is one resumption of a coroutine and runs     *)
(* until the next `await` that really suspends, because cocotb schedules   *)
(* coroutines cooperatively.                                               *)
(*                                                                         *)
(* Pass-through attributes (burst, lock, cache, prot, qos, region, user)   *)
(* and the buser/ruser lists are copied by the code without being read;    *)
(* they are left out of the records.                                       *)
(***************************************************************************)
EXTENDS Integers, Sequences, FiniteSets, TLC

VARIABLES
    byte_width,     \* self.byte_width, fixed at construction
    id_width,       \* len(bus.awid) = len(bus.arid), fixed at construction
    write_if,       \* fields of the AxiMasterWrite object
    wproc,          \* frame of the _process_write coroutine
    wresp,          \* frame of the _process_write_resp coroutine
    aw_channel,     \* AW transaction being driven, if any
    w_channel,      \* W beats queued by w_channel.send()
    b_channel,      \* B beats buffered in the B sink
    read_if,        \* fields of the AxiMasterRead object
    rproc,          \* frame of the _process_read coroutine
    rresp,          \* frame of the _process_read_resp coroutine
    ar_channel,     \* AR transaction being driven, if any
    r_channel,      \* R beats buffered in the R sink
    slave,          \* the device under test: accepted bursts not yet answered
    mem,            \* the device's backing memory (sparse)
    caller,         \* the test's view: the last init_* call and what it raised,
                    \* what the last get_* call returned, how many requests
                    \* the engines accepted
    task            \* frame of a test coroutine calling write() then read()

vars == <<byte_width, id_width, write_if, wproc, wresp, aw_channel, w_channel,
          b_channel, read_if, rproc, rresp, ar_channel, r_channel, slave, mem,
          caller, task>>

wvars == <<write_if, wproc, wresp, aw_channel, w_channel, b_channel>>
rvars == <<read_if, rproc, rresp, ar_channel, r_channel>>

None == "None"       \* Python None as a token or an exception
SizeNone == -1       \* size=None, the default of init_write/init_read
NoValue == <<>>      \* None where the code returns or holds an object: <<x>> is x

(***************************************************************************)
(* Bounds of the model.                                                    *)
(***************************************************************************)
MaxReqs == 2        \* requests the engines accept in one behaviour of Spec
MaxIdWidth == 1     \* ID signals of 1..MaxIdWidth bits: a pool of 2 IDs
BigLen == 260       \* the long request of DataSpec (more than 256 beats)

Min(a, b) == IF a < b THEN a ELSE b
Max(a, b) == IF a > b THEN a ELSE b

RECURSIVE bit_length(_)
bit_length(x) == IF x = 0 THEN 0 ELSE 1 + bit_length(x \div 2)

RECURSIVE BitAnd(_, _)
BitAnd(a, b) ==
    IF a = 0 \/ b = 0 THEN 0
    ELSE (a % 2) * (b % 2) + 2 * BitAnd(a \div 2, b \div 2)

Range(s) == {s[i] : i \in 1..Len(s)}

(***************************************************************************)
(* Derived bus parameters (AxiMasterWrite.__init__, AxiMasterRead.__init__)*)
(***************************************************************************)
strb_mask == 2^byte_width - 1
max_burst_len == 256
max_burst_size == bit_length(byte_width - 1)
AllIds == 0 .. (2^id_width - 1)
InitIdQueue == [i \in 1 .. 2^id_width |-> i - 1]

(***************************************************************************)
(* Burst planner arithmetic, shared text of _process_write/_process_read.  *)
(***************************************************************************)
\* Faulty variant: the plan starts at the bus word of the address.
aligned_addr_word(address, num_bytes) == (address \div byte_width) * byte_width
aligned_addr(address, num_bytes) == (address \div num_bytes) * num_bytes
word_addr(address) == (address \div byte_width) * byte_width
start_offset(address) == address % byte_width
end_offset(address, length) == ((address + length - 1) % byte_width) + 1

\* axi_master.py:186
write_cycles(address, length, num_bytes) ==
    (length + (address % num_bytes) + num_bytes - 1) \div num_bytes

\* axi_master.py:451
read_cycles(address, length, num_bytes) ==
    (length + num_bytes - 1 + (address % num_bytes)) \div num_bytes

\* Faulty variants of the two rules of the burst planner: one takes every
\* remaining beat into the burst, the other ignores the 4 KiB rule.
BurstLenMax_uncapped(cycles, k) == cycles - k
BurstLen4k_unsplit(bl, num_bytes, cur_addr) == bl
\* a third caps the burst at 64 beats
BurstLenMax_cap64(cycles, k) == Min(cycles - k, 64)

\* axi_master.py:225-226 and 472-473; cur_addr & 0xfff is cur_addr mod 4096
BurstLenMax(cycles, k) == Min(cycles - k, Min(Max(max_burst_len, 1), 256))
BurstLen4k(bl, num_bytes, cur_addr) ==
    (Min(bl * num_bytes, 4096 - (cur_addr % 4096)) + num_bytes - 1) \div num_bytes
new_burst_length(cycles, k, num_bytes, cur_addr) ==
    BurstLen4k(BurstLenMax(cycles, k), num_bytes, cur_addr)

(***************************************************************************)
(* Per-beat write shaping, axi_master.py:200-213.                          *)
(***************************************************************************)
beat_start(k, address, cycle_offset) ==
    IF k = 0 THEN start_offset(address) ELSE cycle_offset
beat_stop(k, cycles, address, length, cycle_offset, num_bytes) ==
    IF k = cycles - 1 THEN end_offset(address, length)
    ELSE cycle_offset + num_bytes

\* Faulty variant: the lanes below start are enabled as well.
beat_strb_below_start(start, stop) == strb_mask \div 2^(byte_width - stop)

\* Faulty variant: every byte lane of the beat is enabled.
beat_strb_all_lanes(start, stop) == strb_mask

\* (strb_mask << start) & strb_mask & (strb_mask >> (byte_width - stop))
beat_strb(start, stop) ==
    BitAnd(BitAnd(strb_mask * 2^start, strb_mask),
           strb_mask \div 2^(byte_width - stop))

\* val |= data[offset] << j*8 for j in range(start, stop); offset is 0-based.
\* The lanes are disjoint, so the bitwise or of the shifted bytes is their sum.
RECURSIVE beat_val(_, _, _, _)
beat_val(data, offset, start, stop) ==
    IF start >= stop THEN 0
    ELSE data[offset + 1] * 2^(start * 8) + beat_val(data, offset + 1, start + 1, stop)

(***************************************************************************)
(* Coroutines.  A frame's pc names the program point it is at.  At the pcs *)
(* of Suspended the coroutine waits in an await (or is dead); the other    *)
(* pcs are passed through within one resumption: Run applies the step      *)
(* operator of the coroutine until it suspends.  Run halves its budget     *)
(* instead of counting down so that a burst of 256 beats needs no deep     *)
(* recursion.                                                              *)
(***************************************************************************)
StepBudget == 2048

SuspendedPcs == {"wait_cmd", "wait_id", "drive_aw", "drive_ar", "wait_b",
                 "wait_r", "dead"}
Suspended(s) == s.f.pc \in SuspendedPcs

\* one step of the coroutine that s belongs to; defined with the coroutines
RECURSIVE Step(_)

RECURSIVE Run(_, _)
Run(s, n) ==
    IF Suspended(s) THEN s
    ELSE IF n <= 1 THEN Step(s)
    ELSE LET m == Run(s, n \div 2) IN
         IF Suspended(m) THEN m ELSE Run(m, n - (n \div 2))

WSuspended == [pc |-> "wait_cmd"]
\* An exception left the coroutine: it never runs again; its locals are kept.
Dead(f, exc) == [pc |-> "dead", exc |-> exc, frame |-> f]

\* Faulty variant: the ID taken for a burst stays in the pool.
WriteNewBurst_keeps_id(s) ==
    IF s.e.id_queue = <<>> THEN [s EXCEPT !.f = Dead(s.f, "IndexError")]
    ELSE LET f == s.f
             awid == Head(s.e.id_queue)
             bl == new_burst_length(f.cycles, f.k, f.num_bytes, f.cur_addr)
         IN [s EXCEPT !.f.transfer_count = @ + 1,
                      !.f.n = 0,
                      !.f.burst_length = bl,
                      !.f.burst_list = Append(@, <<awid, bl>>),
                      !.f.pc = "drive_aw",
                      !.aw = <<[awid |-> awid, awaddr |-> f.cur_addr,
                                awlen |-> bl - 1, awsize |-> f.size]>>]

(***************************************************************************)
(* AxiMasterWrite._process_write, axi_master.py:164-260.                   *)
(* s = [e, f, aw, w]: the engine object, the coroutine's frame, the AW     *)
(* transaction being driven and the W send queue.                          *)
(***************************************************************************)
\* lines 220-243: take an ID, size the burst, drive AW (suspends until accepted)
WriteNewBurst(s) ==
    IF s.e.id_queue = <<>> THEN [s EXCEPT !.f = Dead(s.f, "IndexError")]
    ELSE LET f == s.f
             awid == Head(s.e.id_queue)
             bl == new_burst_length(f.cycles, f.k, f.num_bytes, f.cur_addr)
         IN [s EXCEPT !.e.id_queue = Tail(@),
                      !.f.transfer_count = @ + 1,
                      !.f.n = 0,
                      !.f.burst_length = bl,
                      !.f.burst_list = Append(@, <<awid, bl>>),
                      !.f.pc = "drive_aw",
                      !.aw = <<[awid |-> awid, awaddr |-> f.cur_addr,
                                awlen |-> bl - 1, awsize |-> f.size]>>]

\* Faulty variant: wlast marks the first beat of a burst.
WriteBeat_wlast_first(s) ==
    LET f == s.f
        n1 == f.n + 1
    IN [s EXCEPT
           !.w = Append(@, [wdata |-> f.val, wstrb |-> f.strb,
                            wlast |-> (n1 = 1)]),
           !.f.n = n1,
           !.f.cur_addr = @ + f.num_bytes,
           !.f.cycle_offset = (@ + f.num_bytes) % byte_width,
           !.f.k = @ + 1,
           !.f.pc = "loop"]

\* lines 247-257: queue the W beat of cycle k and go to the next cycle
WriteBeat(s) ==
    LET f == s.f
        n1 == f.n + 1
    IN [s EXCEPT
           !.w = Append(@, [wdata |-> f.val, wstrb |-> f.strb,
                            wlast |-> (n1 >= f.burst_length)]),
           !.f.n = n1,
           !.f.cur_addr = @ + f.num_bytes,
           !.f.cycle_offset = (@ + f.num_bytes) % byte_width,
           !.f.k = @ + 1,
           !.f.pc = "loop"]

\* lines 199-218, and 259-260 when the for loop is exhausted
WriteLoop(s) ==
    LET f == s.f IN
    IF f.k >= f.cycles
    THEN [s EXCEPT
             !.e.int_write_resp_command_queue =
                 Append(@, [addr |-> f.address, length |-> Len(f.data),
                            size |-> f.size, cycles |-> f.cycles,
                            burst_list |-> f.burst_list, token |-> f.token]),
             !.e.int_write_resp_command_sync = TRUE,
             !.f = [pc |-> "top"]]
    ELSE LET start == beat_start(f.k, f.address, f.cycle_offset)
             stop == beat_stop(f.k, f.cycles, f.address, Len(f.data),
                               f.cycle_offset, f.num_bytes)
             s1 == [s EXCEPT !.f.strb = beat_strb(start, stop),
                             !.f.val = beat_val(f.data, f.offset, start, stop),
                             !.f.offset = @ + Max(stop - start, 0)]
         IN IF f.n >= f.burst_length
            THEN IF s.e.id_queue = <<>>
                 THEN [s1 EXCEPT !.e.id_sync = FALSE, !.f.pc = "wait_id"]
                 ELSE [s1 EXCEPT !.f.pc = "new_burst"]
            ELSE [s1 EXCEPT !.f.pc = "beat"]

\* lines 170-197: take the next command and set up the planner
WritePop(s) ==
    IF s.e.write_command_queue = <<>> THEN [s EXCEPT !.f = Dead(s.f, "IndexError")]
    ELSE LET cmd == Head(s.e.write_command_queue)
             num_bytes == IF cmd.size = SizeNone THEN byte_width ELSE 2^cmd.size
             size == IF cmd.size = SizeNone THEN max_burst_size ELSE cmd.size
             s1 == [s EXCEPT !.e.write_command_queue = Tail(@)]
         IN IF cmd.size # SizeNone /\ ~(0 < num_bytes /\ num_bytes <= byte_width)
            THEN [s1 EXCEPT !.f = Dead(cmd, "AssertionError")]
            ELSE [s1 EXCEPT !.f =
                   [pc |-> "loop", address |-> cmd.address, data |-> cmd.data,
                    size |-> size, token |-> cmd.token, num_bytes |-> num_bytes,
                    cycles |-> write_cycles(cmd.address, Len(cmd.data), num_bytes),
                    cur_addr |-> aligned_addr(cmd.address, num_bytes),
                    offset |-> 0,
                    cycle_offset |-> aligned_addr(cmd.address, num_bytes)
                                       - word_addr(cmd.address),
                    n |-> 0, k |-> 0, transfer_count |-> 0,
                    burst_list |-> <<>>, burst_length |-> 0,
                    val |-> 0, strb |-> 0]]

\* lines 165-168: the head of the while loop
WriteTop(s) ==
    IF s.e.write_command_queue = <<>>
    THEN [s EXCEPT !.e.write_command_sync = FALSE, !.f = WSuspended]
    ELSE [s EXCEPT !.f.pc = "pop"]

WriteStep(s) ==
    CASE s.f.pc = "top" -> WriteTop(s)
      [] s.f.pc = "pop" -> WritePop(s)
      [] s.f.pc = "loop" -> WriteLoop(s)
      [] s.f.pc = "new_burst" -> WriteNewBurst(s)
      [] s.f.pc = "beat" -> WriteBeat(s)

WState == [e |-> write_if, f |-> wproc, aw |-> aw_channel, w |-> w_channel]

WSet(s) ==
    /\ write_if' = s.e
    /\ wproc' = s.f
    /\ aw_channel' = s.aw
    /\ w_channel' = s.w

\* The coroutine is resumed by the event it waits on: write_command_sync
\* (line 168) or id_sync (line 218).
process_write ==
    /\ \/ /\ wproc.pc = "wait_cmd"
          /\ write_if.write_command_sync
          /\ WSet(Run([WState EXCEPT !.f.pc = "pop"], StepBudget))
       \/ /\ wproc.pc = "wait_id"
          /\ write_if.id_sync
          /\ WSet(Run([WState EXCEPT !.f.pc = "new_burst"], StepBudget))
    /\ UNCHANGED <<byte_width, id_width, wresp, b_channel, rvars, slave, mem,
                   caller, task>>

\* aw_channel.drive(aw) returns (line 243): the device accepted the AW
\* handshake; the coroutine goes on with the W beat of the same cycle.
aw_drive_done ==
    /\ wproc.pc = "drive_aw"
    /\ WSet(Run([WState EXCEPT !.aw = NoValue, !.f.pc = "beat"],
                StepBudget))
    /\ slave' = [slave EXCEPT !.awq = Append(@, aw_channel[1])]
    /\ UNCHANGED <<byte_width, id_width, wresp, b_channel, rvars, mem, caller, task>>

(***************************************************************************)
(* AxiMasterWrite._process_write_resp, axi_master.py:262-309.              *)
(* s = [e, f, b]: the engine object, the coroutine's frame, the B sink.    *)
(***************************************************************************)
\* Faulty variant: the most severe code wins (DECERR, SLVERR, EXOKAY, OKAY).
Severity(resp) ==
    CASE resp = "OKAY" -> 0 [] resp = "EXOKAY" -> 1
      [] resp = "SLVERR" -> 2 [] resp = "DECERR" -> 3
merge_resp_worst(resp, cycle_resp) ==
    IF Severity(cycle_resp) > Severity(resp) THEN cycle_resp ELSE resp

\* lines 290-291 and 543-544: if cycle_resp != AxiResp.OKAY: resp = cycle_resp
merge_resp(resp, cycle_resp) ==
    IF cycle_resp # "OKAY" THEN cycle_resp ELSE resp

\* Faulty variant: the B beat is consumed but the ID is not returned.
WRespTake_keeps_id(s) ==
    LET f == s.f
        bid == f.burst_list[f.i][1]
        b == Head(s.e.int_write_resp_queue_list[bid])
    IN [s EXCEPT !.e.int_write_resp_queue_list[bid] = Tail(@),
                 !.f.resp = merge_resp(@, b.bresp),
                 !.f.i = @ + 1,
                 !.f.pc = "burst"]

\* lines 284-301: consume the B beat of the current burst, release its ID
WRespTake(s) ==
    LET f == s.f
        bid == f.burst_list[f.i][1]
        b == Head(s.e.int_write_resp_queue_list[bid])
        s1 == [s EXCEPT !.e.int_write_resp_queue_list[bid] = Tail(@),
                        !.f.resp = merge_resp(@, b.bresp)]
    IN IF bid \in Range(s.e.id_queue)
       THEN [s1 EXCEPT !.f = Dead(s1.f, "Unexpected burst ID")]
       ELSE [s1 EXCEPT !.e.id_queue = Append(@, bid),
                       !.e.id_sync = TRUE,
                       !.f.i = @ + 1,
                       !.f.pc = "burst"]

\* lines 279-282: b_channel.wait() has a beat; recv() it and file it by bid
WRespRecv(s) ==
    LET b == Head(s.b)
        s1 == [s EXCEPT !.b = Tail(@)]
    IN IF b.bid \notin DOMAIN s.e.int_write_resp_queue_list
       THEN [s1 EXCEPT !.f = Dead(s.f, "KeyError")]
       ELSE [s1 EXCEPT !.e.int_write_resp_queue_list[b.bid] = Append(@, b),
                       !.f.pc = "wait"]

\* lines 275-279: the while True loop of one burst
WRespWait(s) ==
    LET bid == s.f.burst_list[s.f.i][1] IN
    IF s.e.int_write_resp_queue_list[bid] # <<>> THEN [s EXCEPT !.f.pc = "take"]
    ELSE IF s.b = <<>> THEN [s EXCEPT !.f.pc = "wait_b"]
    ELSE [s EXCEPT !.f.pc = "recv"]

\* dict.setdefault(key, deque())
SetDefault(q, key) ==
    IF key \in DOMAIN q THEN q
    ELSE [x \in DOMAIN q \cup {key} |-> IF x = key THEN <<>> ELSE q[x]]

\* Faulty variant: the first burst answered with an error ends the request.
WRespBurst_abort_on_error(s) ==
    LET f == s.f IN
    IF f.i > Len(f.burst_list) \/ f.resp # "OKAY"
    THEN [s EXCEPT
             !.e.write_resp_queue =
                 Append(@, [addr |-> f.addr, length |-> f.length,
                            resp |-> f.resp, token |-> f.token]),
             !.e.write_resp_sync = TRUE,
             !.e.write_resp_set = IF f.token # None THEN @ \cup {f.token} ELSE @,
             !.e.in_flight_operations = @ - 1,
             !.f = [pc |-> "top"]]
    ELSE [s EXCEPT !.e.int_write_resp_queue_list =
                       SetDefault(@, f.burst_list[f.i][1]),
                   !.f.pc = "wait"]

\* lines 273-274, and 303-309 when the burst list is exhausted
WRespBurst(s) ==
    LET f == s.f IN
    IF f.i > Len(f.burst_list)
    THEN [s EXCEPT
             !.e.write_resp_queue =
                 Append(@, [addr |-> f.addr, length |-> f.length,
                            resp |-> f.resp, token |-> f.token]),
             !.e.write_resp_sync = TRUE,
             !.e.write_resp_set = IF f.token # None THEN @ \cup {f.token} ELSE @,
             !.e.in_flight_operations = @ - 1,
             !.f = [pc |-> "top"]]
    ELSE [s EXCEPT !.e.int_write_resp_queue_list =
                       SetDefault(@, f.burst_list[f.i][1]),
                   !.f.pc = "wait"]

\* a response task that takes the newest pending request, not the oldest
WRespPop_newest(s) ==
    IF s.e.int_write_resp_command_queue = <<>>
    THEN [s EXCEPT !.f = Dead(s.f, "IndexError")]
    ELSE LET q == s.e.int_write_resp_command_queue
             c == q[Len(q)] IN
         [s EXCEPT
             !.e.int_write_resp_command_queue = SubSeq(q, 1, Len(q) - 1),
             !.f = [pc |-> "burst", addr |-> c.addr, length |-> c.length,
                    size |-> c.size, cycles |-> c.cycles,
                    burst_list |-> c.burst_list, token |-> c.token,
                    i |-> 1, resp |-> "OKAY"]]

\* lines 268-271
WRespPop(s) ==
    IF s.e.int_write_resp_command_queue = <<>>
    THEN [s EXCEPT !.f = Dead(s.f, "IndexError")]
    ELSE LET c == Head(s.e.int_write_resp_command_queue) IN
         [s EXCEPT
             !.e.int_write_resp_command_queue = Tail(@),
             !.f = [pc |-> "burst", addr |-> c.addr, length |-> c.length,
                    size |-> c.size, cycles |-> c.cycles,
                    burst_list |-> c.burst_list, token |-> c.token,
                    i |-> 1, resp |-> "OKAY"]]

\* lines 263-266
WRespTop(s) ==
    IF s.e.int_write_resp_command_queue = <<>>
    THEN [s EXCEPT !.e.int_write_resp_command_sync = FALSE, !.f = WSuspended]
    ELSE [s EXCEPT !.f.pc = "pop"]

WRespStep(s) ==
    CASE s.f.pc = "top" -> WRespTop(s)
      [] s.f.pc = "pop" -> WRespPop(s)
      [] s.f.pc = "burst" -> WRespBurst(s)
      [] s.f.pc = "wait" -> WRespWait(s)
      [] s.f.pc = "recv" -> WRespRecv(s)
      [] s.f.pc = "take" -> WRespTake(s)

WRState == [e |-> write_if, f |-> wresp, b |-> b_channel]

WRSet(s) ==
    /\ write_if' = s.e
    /\ wresp' = s.f
    /\ b_channel' = s.b

\* The coroutine is resumed by int_write_resp_command_sync (line 266) or by
\* the B sink having a beat (line 279).
process_write_resp ==
    /\ \/ /\ wresp.pc = "wait_cmd"
          /\ write_if.int_write_resp_command_sync
          /\ WRSet(Run([WRState EXCEPT !.f.pc = "pop"], StepBudget))
       \/ /\ wresp.pc = "wait_b"
          /\ b_channel # <<>>
          /\ WRSet(Run([WRState EXCEPT !.f.pc = "recv"], StepBudget))
    /\ UNCHANGED <<byte_width, id_width, wproc, aw_channel, w_channel, rvars,
                   slave, mem, caller, task>>

(***************************************************************************)
(* Caller API of the write engine, axi_master.py:84-131.                   *)
(* InitWrite and GetWriteResp return the engine object after the call and  *)
(* what the call raised or returned.                                       *)
(***************************************************************************)
\* Faulty variant: the token is registered without the uniqueness test.
InitWrite_unchecked(e, address, data, size, token) ==
    [e |-> [e EXCEPT
              !.active_tokens = IF token # None THEN @ \cup {token} ELSE @,
              !.in_flight_operations = @ + 1,
              !.write_command_queue =
                  Append(@, [address |-> address, data |-> data,
                             size |-> size, token |-> token]),
              !.write_command_sync = TRUE],
     exc |-> None]

InitWrite(e, address, data, size, token) ==
    IF token # None /\ token \in e.active_tokens
    THEN [e |-> e, exc |-> "Token is not unique"]
    ELSE [e |-> [e EXCEPT
                   !.active_tokens = IF token # None THEN @ \cup {token} ELSE @,
                   !.in_flight_operations = @ + 1,
                   !.write_command_queue =
                       Append(@, [address |-> address, data |-> data,
                                  size |-> size, token |-> token]),
                   !.write_command_sync = TRUE],
          exc |-> None]

\* deque.remove(x): drop the first element equal to x
RemoveAt(q, i) == SubSeq(q, 1, i - 1) \o SubSeq(q, i + 1, Len(q))
FirstWithToken(q, token) ==
    IF \E i \in 1..Len(q) : q[i].token = token
    THEN CHOOSE i \in 1..Len(q) :
            q[i].token = token /\ \A j \in 1..(i - 1) : q[j].token # token
    ELSE 0

\* Faulty variant: a retrieved token stays in the completed set.
GetWriteResp_stale(e, token) ==
    IF token # None
    THEN LET i == FirstWithToken(e.write_resp_queue, token) IN
         IF token \in e.write_resp_set /\ i > 0
         THEN [e |-> [e EXCEPT !.write_resp_queue = RemoveAt(@, i),
                               !.active_tokens = @ \ {token}],
               ret |-> <<e.write_resp_queue[i]>>]
         ELSE [e |-> e, ret |-> NoValue]
    ELSE IF e.write_resp_queue # <<>>
         THEN LET resp == Head(e.write_resp_queue) IN
              [e |-> [e EXCEPT !.write_resp_queue = Tail(@),
                               !.active_tokens =
                                   IF resp.token # None THEN @ \ {resp.token} ELSE @],
               ret |-> <<resp>>]
         ELSE [e |-> e, ret |-> NoValue]

\* Faulty variant: a removal by token fills the hole with the last result.
GetWriteResp_swap(e, token) ==
    IF token # None
    THEN LET q == e.write_resp_queue
             i == FirstWithToken(q, token) IN
         IF token \in e.write_resp_set /\ i > 0
         THEN [e |-> [e EXCEPT !.write_resp_queue =
                                   IF i = Len(q) THEN SubSeq(q, 1, i - 1)
                                   ELSE SubSeq(q, 1, i - 1) \o <<q[Len(q)]>>
                                            \o SubSeq(q, i + 1, Len(q) - 1),
                               !.active_tokens = @ \ {token},
                               !.write_resp_set = @ \ {token}],
               ret |-> <<q[i]>>]
         ELSE [e |-> e, ret |-> NoValue]
    ELSE IF e.write_resp_queue # <<>>
         THEN LET resp == Head(e.write_resp_queue) IN
              [e |-> [e EXCEPT !.write_resp_queue = Tail(@),
                               !.active_tokens =
                                   IF resp.token # None THEN @ \ {resp.token} ELSE @,
                               !.write_resp_set =
                                   IF resp.token # None THEN @ \ {resp.token} ELSE @],
               ret |-> <<resp>>]
         ELSE [e |-> e, ret |-> NoValue]

GetWriteResp(e, token) ==
    IF token # None
    THEN LET i == FirstWithToken(e.write_resp_queue, token) IN
         IF token \in e.write_resp_set /\ i > 0
         THEN [e |-> [e EXCEPT !.write_resp_queue = RemoveAt(@, i),
                               !.active_tokens = @ \ {token},
                               !.write_resp_set = @ \ {token}],
               ret |-> <<e.write_resp_queue[i]>>]
         ELSE [e |-> e, ret |-> NoValue]
    ELSE IF e.write_resp_queue # <<>>
         THEN LET resp == Head(e.write_resp_queue) IN
              [e |-> [e EXCEPT !.write_resp_queue = Tail(@),
                               !.active_tokens =
                                   IF resp.token # None THEN @ \ {resp.token} ELSE @,
                               !.write_resp_set =
                                   IF resp.token # None THEN @ \ {resp.token} ELSE @],
               ret |-> <<resp>>]
         ELSE [e |-> e, ret |-> NoValue]

idle_write == write_if.in_flight_operations = 0

init_write(address, data, size, token) ==
    LET r == InitWrite(write_if, address, data, size, token) IN
    /\ caller.accepted < MaxReqs
    /\ write_if' = r.e
    /\ caller' = [caller EXCEPT !.op = "init_write", !.token = token,
                                !.exc = r.exc,
                                !.accepted = IF r.exc = None THEN @ + 1 ELSE @]
    /\ UNCHANGED <<byte_width, id_width, wproc, wresp, aw_channel, w_channel,
                   b_channel, rvars, slave, mem, task>>

get_write_resp(token) ==
    LET r == GetWriteResp(write_if, token) IN
    /\ write_if' = r.e
    /\ caller' = [caller EXCEPT !.ret = r.ret]
    /\ UNCHANGED <<byte_width, id_width, wproc, wresp, aw_channel, w_channel,
                   b_channel, rvars, slave, mem, task>>

\* lines 110-113; the caller gets the truth value, as [ready |-> value]
write_resp_ready(token) ==
    /\ caller' = [caller EXCEPT
                      !.ret = <<[ready |->
                                   IF token # None
                                   THEN token \in write_if.write_resp_set
                                   ELSE write_if.write_resp_queue # <<>>]>>]
    /\ UNCHANGED <<byte_width, id_width, wvars, rvars, slave, mem, task>>

\* Faulty variant: the beat counter restarts at 1 in a new burst.
ReadNewBurst_counted(s) ==
    IF s.e.id_queue = <<>> THEN [s EXCEPT !.f = Dead(s.f, "IndexError")]
    ELSE LET f == s.f
             arid == Head(s.e.id_queue)
             bl == new_burst_length(f.cycles, f.k, f.num_bytes, f.cur_addr)
         IN [s EXCEPT !.e.id_queue = Tail(@),
                      !.f.n = 1,
                      !.f.burst_length = bl,
                      !.f.burst_list = Append(@, <<arid, bl>>),
                      !.f.pc = "drive_ar",
                      !.ar = <<[arid |-> arid, araddr |-> f.cur_addr,
                                arlen |-> bl - 1, arsize |-> f.size]>>]

(***************************************************************************)
(* AxiMasterRead._process_read, axi_master.py:432-497.                     *)
(* s = [e, f, ar]: the engine object, the frame, the AR being driven.      *)
(***************************************************************************)
\* lines 468-490: take an ID, size the burst, drive AR (suspends until accepted)
ReadNewBurst(s) ==
    IF s.e.id_queue = <<>> THEN [s EXCEPT !.f = Dead(s.f, "IndexError")]
    ELSE LET f == s.f
             arid == Head(s.e.id_queue)
             bl == new_burst_length(f.cycles, f.k, f.num_bytes, f.cur_addr)
         IN [s EXCEPT !.e.id_queue = Tail(@),
                      !.f.n = 0,
                      !.f.burst_length = bl,
                      !.f.burst_list = Append(@, <<arid, bl>>),
                      !.f.pc = "drive_ar",
                      !.ar = <<[arid |-> arid, araddr |-> f.cur_addr,
                                arlen |-> bl - 1, arsize |-> f.size]>>]

\* line 494 and the step of the for loop
ReadNext(s) ==
    [s EXCEPT !.f.cur_addr = @ + s.f.num_bytes, !.f.k = @ + 1, !.f.pc = "loop"]

\* lines 460-466, and 496-497 when the for loop is exhausted
ReadLoop(s) ==
    LET f == s.f IN
    IF f.k >= f.cycles
    THEN [s EXCEPT
             !.e.int_read_resp_command_queue =
                 Append(@, [addr |-> f.address, length |-> f.length,
                            size |-> f.size, cycles |-> f.cycles,
                            burst_list |-> f.burst_list, token |-> f.token]),
             !.e.int_read_resp_command_sync = TRUE,
             !.f = [pc |-> "top"]]
    ELSE LET s1 == [s EXCEPT !.f.n = @ + 1] IN
         IF s1.f.n >= f.burst_length
         THEN IF s.e.id_queue = <<>>
              THEN [s1 EXCEPT !.e.id_sync = FALSE, !.f.pc = "wait_id"]
              ELSE [s1 EXCEPT !.f.pc = "new_burst"]
         ELSE [s1 EXCEPT !.f.pc = "next"]

\* lines 438-458
ReadPop(s) ==
    IF s.e.read_command_queue = <<>> THEN [s EXCEPT !.f = Dead(s.f, "IndexError")]
    ELSE LET cmd == Head(s.e.read_command_queue)
             num_bytes == IF cmd.size = SizeNone THEN byte_width ELSE 2^cmd.size
             size == IF cmd.size = SizeNone THEN max_burst_size ELSE cmd.size
             s1 == [s EXCEPT !.e.read_command_queue = Tail(@)]
         IN IF cmd.size # SizeNone /\ ~(0 < num_bytes /\ num_bytes <= byte_width)
            THEN [s1 EXCEPT !.f = Dead(cmd, "AssertionError")]
            ELSE [s1 EXCEPT !.f =
                   [pc |-> "loop", address |-> cmd.address, length |-> cmd.length,
                    size |-> size, token |-> cmd.token, num_bytes |-> num_bytes,
                    cycles |-> read_cycles(cmd.address, cmd.length, num_bytes),
                    cur_addr |-> aligned_addr(cmd.address, num_bytes),
                    n |-> 0, k |-> 0,
                    burst_list |-> <<>>, burst_length |-> 0]]

\* lines 433-436
ReadTop(s) ==
    IF s.e.read_command_queue = <<>>
    THEN [s EXCEPT !.e.read_command_sync = FALSE, !.f = WSuspended]
    ELSE [s EXCEPT !.f.pc = "pop"]

ReadStep(s) ==
    CASE s.f.pc = "top" -> ReadTop(s)
      [] s.f.pc = "pop" -> ReadPop(s)
      [] s.f.pc = "loop" -> ReadLoop(s)
      [] s.f.pc = "new_burst" -> ReadNewBurst(s)
      [] s.f.pc = "next" -> ReadNext(s)

RState == [e |-> read_if, f |-> rproc, ar |-> ar_channel]

RSet(s) ==
    /\ read_if' = s.e
    /\ rproc' = s.f
    /\ ar_channel' = s.ar

process_read ==
    /\ \/ /\ rproc.pc = "wait_cmd"
          /\ read_if.read_command_sync
          /\ RSet(Run([RState EXCEPT !.f.pc = "pop"], StepBudget))
       \/ /\ rproc.pc = "wait_id"
          /\ read_if.id_sync
          /\ RSet(Run([RState EXCEPT !.f.pc = "new_burst"], StepBudget))
    /\ UNCHANGED <<byte_width, id_width, wvars, rresp, r_channel, slave, mem,
                   caller, task>>

\* ar_channel.drive(ar) returns (line 490): the device accepted the AR handshake
ar_drive_done ==
    /\ rproc.pc = "drive_ar"
    /\ RSet(Run([RState EXCEPT !.ar = NoValue, !.f.pc = "next"], StepBudget))
    /\ slave' = [slave EXCEPT !.arq = Append(@, ar_channel[1] @@ [sent |-> 0])]
    /\ UNCHANGED <<byte_width, id_width, wvars, rresp, r_channel, mem, caller, task>>

(***************************************************************************)
(* AxiMasterRead._process_read_resp, axi_master.py:499-579.                *)
(* s = [e, f, r]: the engine object, the frame, the R sink.                *)
(***************************************************************************)
\* lines 557-558: data.append((cycle_data >> j*8) & 0xff) for j in range(start, stop)
RECURSIVE beat_bytes(_, _, _)
beat_bytes(cycle_data, start, stop) ==
    IF start >= stop THEN <<>>
    ELSE <<(cycle_data \div 2^(start * 8)) % 256>>
         \o beat_bytes(cycle_data, start + 1, stop)

\* Faulty variant: the first beat is cut at the lane of the aligned address.
read_start_aligned(first, addr, cycle_offset) == cycle_offset

\* lines 549-553
read_start(first, addr, cycle_offset) ==
    IF first THEN start_offset(addr) ELSE cycle_offset
read_stop(cycle_offset, num_bytes) == cycle_offset + num_bytes

\* line 571: data[:length]
Truncate(data, length) == SubSeq(data, 1, Min(Max(length, 0), Len(data)))

\* Faulty variant: rlast is not compared with the position of the beat.
RRespTake_unchecked(s) ==
    LET f == s.f
        rid == f.burst_list[f.i][1]
        r == Head(s.e.int_read_resp_queue_list[rid])
        start == read_start(f.first, f.addr, f.cycle_offset)
        stop == read_stop(f.cycle_offset, f.num_bytes)
    IN [s EXCEPT !.e.int_read_resp_queue_list[rid] = Tail(@),
                 !.f.resp = merge_resp(@, r.rresp),
                 !.f.data = @ \o beat_bytes(r.rdata, start, stop),
                 !.f.cycle_offset = (@ + f.num_bytes) % byte_width,
                 !.f.first = FALSE,
                 !.f.k = @ + 1,
                 !.f.pc = "beat"]

\* lines 535-562: consume one R beat of the current burst
RRespTake(s) ==
    LET f == s.f
        rid == f.burst_list[f.i][1]
        burst_length == f.burst_list[f.i][2]
        r == Head(s.e.int_read_resp_queue_list[rid])
        start == read_start(f.first, f.addr, f.cycle_offset)
        stop == read_stop(f.cycle_offset, f.num_bytes)
        s1 == [s EXCEPT !.e.int_read_resp_queue_list[rid] = Tail(@),
                        !.f.resp = merge_resp(@, r.rresp)]
    IN IF r.rlast # (f.k = burst_length - 1)
       THEN [s1 EXCEPT !.f = Dead(s1.f, "AssertionError")]
       ELSE [s1 EXCEPT
                !.f.data = @ \o beat_bytes(r.rdata, start, stop),
                !.f.cycle_offset = (@ + f.num_bytes) % byte_width,
                !.f.first = FALSE,
                !.f.k = @ + 1,
                !.f.pc = "beat"]

\* lines 530-533
RRespRecv(s) ==
    LET r == Head(s.r)
        s1 == [s EXCEPT !.r = Tail(@)]
    IN IF r.rid \notin DOMAIN s.e.int_read_resp_queue_list
       THEN [s1 EXCEPT !.f = Dead(s.f, "KeyError")]
       ELSE [s1 EXCEPT !.e.int_read_resp_queue_list[r.rid] = Append(@, r),
                       !.f.pc = "wait"]

\* lines 526-530
RRespWait(s) ==
    LET rid == s.f.burst_list[s.f.i][1] IN
    IF s.e.int_read_resp_queue_list[rid] # <<>> THEN [s EXCEPT !.f.pc = "take"]
    ELSE IF s.r = <<>> THEN [s EXCEPT !.f.pc = "wait_r"]
    ELSE [s EXCEPT !.f.pc = "recv"]

\* Faulty variant: the burst is finished but the ID is not returned.
RRespRelease_keeps_id(s) ==
    [s EXCEPT !.f.i = @ + 1, !.f.k = 0, !.f.pc = "beat"]

\* lines 564-567: the burst's beats are consumed, release its ID
RRespRelease(s) ==
    LET rid == s.f.burst_list[s.f.i][1] IN
    IF rid \in Range(s.e.id_queue)
    THEN [s EXCEPT !.f = Dead(s.f, "Unexpected burst ID")]
    ELSE [s EXCEPT !.e.id_queue = Append(@, rid),
                   !.e.id_sync = TRUE,
                   !.f.i = @ + 1,
                   !.f.k = 0,
                   !.f.pc = "beat"]

\* lines 523-525, and 571-579 when the burst list is exhausted
RRespBeat(s) ==
    LET f == s.f IN
    IF f.i > Len(f.burst_list)
    THEN [s EXCEPT
             !.e.read_data_queue =
                 Append(@, [addr |-> f.addr, data |-> Truncate(f.data, f.length),
                            resp |-> f.resp, token |-> f.token]),
             !.e.read_data_sync = TRUE,
             !.e.read_data_set = IF f.token # None THEN @ \cup {f.token} ELSE @,
             !.e.in_flight_operations = @ - 1,
             !.f = [pc |-> "top"]]
    ELSE IF f.k >= f.burst_list[f.i][2] THEN [s EXCEPT !.f.pc = "release"]
    ELSE [s EXCEPT !.e.int_read_resp_queue_list =
                       SetDefault(@, f.burst_list[f.i][1]),
                   !.f.pc = "wait"]

\* lines 505-521
RRespPop(s) ==
    IF s.e.int_read_resp_command_queue = <<>>
    THEN [s EXCEPT !.f = Dead(s.f, "IndexError")]
    ELSE LET c == Head(s.e.int_read_resp_command_queue)
             num_bytes == 2^c.size
         IN [s EXCEPT
             !.e.int_read_resp_command_queue = Tail(@),
             !.f = [pc |-> "beat", addr |-> c.addr, length |-> c.length,
                    size |-> c.size, cycles |-> c.cycles,
                    burst_list |-> c.burst_list, token |-> c.token,
                    num_bytes |-> num_bytes,
                    cycle_offset |-> aligned_addr(c.addr, num_bytes) - word_addr(c.addr),
                    data |-> <<>>, resp |-> "OKAY", first |-> TRUE,
                    i |-> 1, k |-> 0]]

\* lines 500-503
RRespTop(s) ==
    IF s.e.int_read_resp_command_queue = <<>>
    THEN [s EXCEPT !.e.int_read_resp_command_sync = FALSE, !.f = WSuspended]
    ELSE [s EXCEPT !.f.pc = "pop"]

RRespStep(s) ==
    CASE s.f.pc = "top" -> RRespTop(s)
      [] s.f.pc = "pop" -> RRespPop(s)
      [] s.f.pc = "beat" -> RRespBeat(s)
      [] s.f.pc = "release" -> RRespRelease(s)
      [] s.f.pc = "wait" -> RRespWait(s)
      [] s.f.pc = "recv" -> RRespRecv(s)
      [] s.f.pc = "take" -> RRespTake(s)

RRState == [e |-> read_if, f |-> rresp, r |-> r_channel]

\* the state records of the four coroutines differ in the channel they hold
Step(s) ==
    CASE "aw" \in DOMAIN s -> WriteStep(s)
      [] "b" \in DOMAIN s -> WRespStep(s)
      [] "ar" \in DOMAIN s -> ReadStep(s)
      [] "r" \in DOMAIN s -> RRespStep(s)

RRSet(s) ==
    /\ read_if' = s.e
    /\ rresp' = s.f
    /\ r_channel' = s.r

process_read_resp ==
    /\ \/ /\ rresp.pc = "wait_cmd"
          /\ read_if.int_read_resp_command_sync
          /\ RRSet(Run([RRState EXCEPT !.f.pc = "pop"], StepBudget))
       \/ /\ rresp.pc = "wait_r"
          /\ r_channel # <<>>
          /\ RRSet(Run([RRState EXCEPT !.f.pc = "recv"], StepBudget))
    /\ UNCHANGED <<byte_width, id_width, wvars, rproc, ar_channel, slave, mem,
                   caller, task>>

(***************************************************************************)
(* Caller API of the read engine, axi_master.py:352-399.                   *)
(***************************************************************************)
\* Faulty variant: the request is put at the head of the command queue.
InitRead_lifo(e, address, length, size, token) ==
    IF token # None /\ token \in e.active_tokens
    THEN [e |-> e, exc |-> "Token is not unique"]
    ELSE [e |-> [e EXCEPT
                   !.active_tokens = IF token # None THEN @ \cup {token} ELSE @,
                   !.in_flight_operations = @ + 1,
                   !.read_command_queue =
                       <<[address |-> address, length |-> length,
                          size |-> size, token |-> token]>> \o @,
                   !.read_command_sync = TRUE],
          exc |-> None]

\* Faulty variant: the request is queued but not counted as in flight.
InitRead_uncounted(e, address, length, size, token) ==
    IF token # None /\ token \in e.active_tokens
    THEN [e |-> e, exc |-> "Token is not unique"]
    ELSE [e |-> [e EXCEPT
                   !.active_tokens = IF token # None THEN @ \cup {token} ELSE @,
                   !.read_command_queue =
                       Append(@, [address |-> address, length |-> length,
                                  size |-> size, token |-> token]),
                   !.read_command_sync = TRUE],
          exc |-> None]

InitRead(e, address, length, size, token) ==
    IF token # None /\ token \in e.active_tokens
    THEN [e |-> e, exc |-> "Token is not unique"]
    ELSE [e |-> [e EXCEPT
                   !.active_tokens = IF token # None THEN @ \cup {token} ELSE @,
                   !.in_flight_operations = @ + 1,
                   !.read_command_queue =
                       Append(@, [address |-> address, length |-> length,
                                  size |-> size, token |-> token]),
                   !.read_command_sync = TRUE],
          exc |-> None]

GetReadData(e, token) ==
    IF token # None
    THEN LET i == FirstWithToken(e.read_data_queue, token) IN
         IF token \in e.read_data_set /\ i > 0
         THEN [e |-> [e EXCEPT !.read_data_queue = RemoveAt(@, i),
                               !.active_tokens = @ \ {token},
                               !.read_data_set = @ \ {token}],
               ret |-> <<e.read_data_queue[i]>>]
         ELSE [e |-> e, ret |-> NoValue]
    ELSE IF e.read_data_queue # <<>>
         THEN LET resp == Head(e.read_data_queue) IN
              [e |-> [e EXCEPT !.read_data_queue = Tail(@),
                               !.active_tokens =
                                   IF resp.token # None THEN @ \ {resp.token} ELSE @,
                               !.read_data_set =
                                   IF resp.token # None THEN @ \ {resp.token} ELSE @],
               ret |-> <<resp>>]
         ELSE [e |-> e, ret |-> NoValue]

idle_read == read_if.in_flight_operations = 0

init_read(address, length, size, token) ==
    LET r == InitRead(read_if, address, length, size, token) IN
    /\ caller.accepted < MaxReqs
    /\ read_if' = r.e
    /\ caller' = [caller EXCEPT !.op = "init_read", !.token = token,
                                !.exc = r.exc,
                                !.accepted = IF r.exc = None THEN @ + 1 ELSE @]
    /\ UNCHANGED <<byte_width, id_width, wvars, rproc, rresp, ar_channel,
                   r_channel, slave, mem, task>>

get_read_data(token) ==
    LET r == GetReadData(read_if, token) IN
    /\ read_if' = r.e
    /\ caller' = [caller EXCEPT !.ret = r.ret]
    /\ UNCHANGED <<byte_width, id_width, wvars, rproc, rresp, ar_channel,
                   r_channel, slave, mem, task>>

\* lines 378-381
read_data_ready(token) ==
    /\ caller' = [caller EXCEPT
                      !.ret = <<[ready |->
                                   IF token # None
                                   THEN token \in read_if.read_data_set
                                   ELSE read_if.read_data_queue # <<>>]>>]
    /\ UNCHANGED <<byte_width, id_width, wvars, rvars, slave, mem, task>>

\* AxiMaster.idle, axi_master.py:596-597
idle == idle_read /\ idle_write

(***************************************************************************)
(* The blocking calls AxiMasterWrite.write (133-137) and                   *)
(* AxiMasterRead.read (401-405), run by one test coroutine (`task`) that   *)
(* writes a buffer and reads it back, as run_stress_test's worker does.    *)
(* object() gives each call a token no other request carries.              *)
(***************************************************************************)
\* write(): init_write, then wait_for_token up to its first await (103-108)
write ==
    /\ task.pc = "start"
    /\ LET tok == "object_w"
           r == InitWrite(write_if, task.address, task.data, task.size, tok)
       IN /\ r.exc = None
          /\ IF tok \notin r.e.active_tokens
             THEN FALSE
             ELSE /\ write_if' = [r.e EXCEPT !.write_resp_sync = FALSE]
                  /\ task' = [task EXCEPT !.pc = "write_wait", !.token = tok]
    /\ UNCHANGED <<byte_width, id_width, wproc, wresp, aw_channel, w_channel,
                   b_channel, rvars, slave, mem, caller>>

\* write_resp_sync fired: the while loop of wait_for_token, then line 137
write_return ==
    /\ task.pc = "write_wait"
    /\ write_if.write_resp_sync
    /\ IF task.token \notin write_if.write_resp_set
       THEN /\ write_if' = [write_if EXCEPT !.write_resp_sync = FALSE]
            /\ task' = task
       ELSE LET r == GetWriteResp(write_if, task.token) IN
            /\ write_if' = r.e
            /\ task' = IF r.ret = NoValue
                       THEN Dead(task, "TypeError")
                       ELSE [task EXCEPT !.pc = "written",
                                         !.wret = <<r.ret[1].length, r.ret[1].resp>>]
    /\ UNCHANGED <<byte_width, id_width, wproc, wresp, aw_channel, w_channel,
                   b_channel, rvars, slave, mem, caller>>

\* read(): init_read, then wait_for_token up to its first await (371-376)
read ==
    /\ task.pc = "written"
    /\ LET tok == "object_r"
           r == InitRead(read_if, task.address, Len(task.data), task.size, tok)
       IN /\ r.exc = None
          /\ read_if' = [r.e EXCEPT !.read_data_sync = FALSE]
          /\ task' = [task EXCEPT !.pc = "read_wait", !.token = tok]
    /\ UNCHANGED <<byte_width, id_width, wvars, rproc, rresp, ar_channel,
                   r_channel, slave, mem, caller>>

\* read_data_sync fired: the while loop of wait_for_token, then line 405
read_return ==
    /\ task.pc = "read_wait"
    /\ read_if.read_data_sync
    /\ IF task.token \notin read_if.read_data_set
       THEN /\ read_if' = [read_if EXCEPT !.read_data_sync = FALSE]
            /\ task' = task
       ELSE LET r == GetReadData(read_if, task.token) IN
            /\ read_if' = r.e
            /\ task' = IF r.ret = NoValue
                       THEN Dead(task, "TypeError")
                       ELSE [task EXCEPT !.pc = "done",
                                         !.rret = <<r.ret[1].data, r.ret[1].resp>>]
    /\ UNCHANGED <<byte_width, id_width, wvars, rproc, rresp, ar_channel,
                   r_channel, slave, mem, caller>>

(***************************************************************************)
(* The device under test: an AXI slave with a byte-addressed memory that   *)
(* applies write strobes per byte lane.  It is the environment of the      *)
(* master; AXI lets it answer bursts of different IDs in any order.        *)
(***************************************************************************)
Untouched == 85

MemRead(m, a) == IF a \in DOMAIN m THEN m[a].val ELSE Untouched

\* the beats of the burst aw whose strobes enable the byte at address a:
\* beat j covers the bus word of awaddr + j * 2^awsize, lane a mod byte_width
BurstHits(aw, beats, a) ==
    LET nb == 2^aw.awsize
        lo == Max(0, word_addr(a) - aw.awaddr) \div nb
        hi == Min(aw.awlen, (word_addr(a) + byte_width - 1 - aw.awaddr) \div nb)
    IN {j \in lo .. hi :
           /\ word_addr(aw.awaddr + j * nb) = word_addr(a)
           /\ (beats[j + 1].wstrb \div 2^(a % byte_width)) % 2 = 1}

\* the addresses the burst aw writes
BurstAddrs(aw, beats) ==
    {a \in word_addr(aw.awaddr) ..
           (word_addr(aw.awaddr + aw.awlen * 2^aw.awsize) + byte_width - 1) :
        BurstHits(aw, beats, a) # {}}

\* memory after the beats of burst aw, taken from the head of the W stream;
\* the last beat that hits an address leaves its byte there
ApplyBurst(m, aw, beats) ==
    LET touched == BurstAddrs(aw, beats) IN
    [a \in DOMAIN m \cup touched |->
        IF a \in touched
        THEN LET hits == BurstHits(aw, beats, a)
                 last == CHOOSE h \in hits : \A g \in hits : g <= h
             IN [val |-> (beats[last + 1].wdata \div 2^((a % byte_width) * 8)) % 256,
                 cnt |-> (IF a \in DOMAIN m THEN m[a].cnt ELSE 0) + Cardinality(hits)]
        ELSE m[a]]

RECURSIVE ReadWord(_, _, _)
ReadWord(m, wa, lane) ==
    IF lane >= byte_width THEN 0
    ELSE MemRead(m, wa + lane) * 2^(lane * 8) + ReadWord(m, wa, lane + 1)

RBeat(m, ar, j, resp) ==
    [rid |-> ar.arid,
     rdata |-> ReadWord(m, word_addr(ar.araddr + j * 2^ar.arsize), 0),
     rresp |-> resp,
     rlast |-> (j = ar.arlen)]

RBeats(m, ar, j, resp) ==
    [x \in 1 .. (ar.arlen + 1 - j) |-> RBeat(m, ar, j + x - 1, resp)]

\* the i-th burst is the oldest of its ID in the sequence ids of burst IDs
OldestOfId(ids, i) == \A j \in 1..(i - 1) : ids[j] # ids[i]

\* the oldest accepted write burst has all its W beats: write them to memory
slave_write_burst ==
    /\ slave.awq # <<>>
    /\ LET aw == Head(slave.awq) IN
       /\ Len(w_channel) >= aw.awlen + 1
       /\ mem' = ApplyBurst(mem, aw, w_channel)
       /\ w_channel' = SubSeq(w_channel, aw.awlen + 2, Len(w_channel))
       /\ slave' = [slave EXCEPT !.awq = Tail(@), !.bq = Append(@, aw.awid)]
    /\ UNCHANGED <<byte_width, id_width, write_if, wproc, wresp, aw_channel,
                   b_channel, rvars, caller, task>>

\* answer the i-th written burst with a B beat
slave_send_b(i, resp) ==
    /\ i \in 1..Len(slave.bq)
    /\ OldestOfId(slave.bq, i)
    /\ b_channel' = Append(b_channel, [bid |-> slave.bq[i], bresp |-> resp])
    /\ slave' = [slave EXCEPT !.bq = RemoveAt(@, i)]
    /\ UNCHANGED <<byte_width, id_width, write_if, wproc, wresp, aw_channel,
                   w_channel, rvars, mem, caller, task>>

\* send the next R beat of the i-th accepted read burst
slave_send_r(i, resp) ==
    /\ i \in 1..Len(slave.arq)
    /\ OldestOfId([j \in 1..Len(slave.arq) |-> slave.arq[j].arid], i)
    /\ LET ar == slave.arq[i] IN
       /\ r_channel' = Append(r_channel, RBeat(mem, ar, ar.sent, resp))
       /\ slave' = [slave EXCEPT !.arq =
              IF ar.sent = ar.arlen THEN RemoveAt(@, i)
              ELSE [@ EXCEPT ![i].sent = @ + 1]]
    /\ UNCHANGED <<byte_width, id_width, wvars, read_if, rproc, rresp,
                   ar_channel, mem, caller, task>>

\* send all R beats of the oldest accepted read burst, back to back
slave_read_burst ==
    /\ slave.arq # <<>>
    /\ LET ar == Head(slave.arq) IN
       /\ r_channel' = r_channel \o RBeats(mem, ar, ar.sent, "OKAY")
       /\ slave' = [slave EXCEPT !.arq = Tail(@)]
    /\ UNCHANGED <<byte_width, id_width, wvars, read_if, rproc, rresp,
                   ar_channel, mem, caller, task>>

(***************************************************************************)
(* Construction: AxiMasterWrite.__init__ (51-82), AxiMasterRead.__init__   *)
(* (321-350), AxiMaster.__init__ (583-588).  cocotb.fork runs each         *)
(* coroutine up to its first await: all four wait for a command.           *)
(***************************************************************************)
EmptyMap == [x \in {} |-> <<>>]

NewWriteIf ==
    [active_tokens |-> {},
     write_command_queue |-> <<>>, write_command_sync |-> FALSE,
     write_resp_queue |-> <<>>, write_resp_sync |-> FALSE,
     write_resp_set |-> {},
     id_queue |-> InitIdQueue, id_sync |-> FALSE,
     int_write_resp_command_queue |-> <<>>,
     int_write_resp_command_sync |-> FALSE,
     int_write_resp_queue_list |-> EmptyMap,
     in_flight_operations |-> 0]

NewReadIf ==
    [active_tokens |-> {},
     read_command_queue |-> <<>>, read_command_sync |-> FALSE,
     read_data_queue |-> <<>>, read_data_sync |-> FALSE,
     read_data_set |-> {},
     id_queue |-> InitIdQueue, id_sync |-> FALSE,
     int_read_resp_command_queue |-> <<>>,
     int_read_resp_command_sync |-> FALSE,
     int_read_resp_queue_list |-> EmptyMap,
     in_flight_operations |-> 0]

Construct(widths, id_widths) ==
    /\ byte_width \in widths
    /\ id_width \in id_widths
    /\ write_if = NewWriteIf
    /\ read_if = NewReadIf
    /\ wproc = WSuspended
    /\ wresp = WSuspended
    /\ rproc = WSuspended
    /\ rresp = WSuspended
    /\ aw_channel = NoValue
    /\ ar_channel = NoValue
    /\ w_channel = <<>>
    /\ b_channel = <<>>
    /\ r_channel = <<>>
    /\ slave = [awq |-> <<>>, bq |-> <<>>, arq |-> <<>>]
    /\ mem = [x \in {} |-> [val |-> 0, cnt |-> 0]]
    /\ caller = [op |-> None, token |-> None, exc |-> None, ret |-> NoValue,
                 accepted |-> 0]

\* test_data = bytearray([x % 256 for x in range(length)]), test_axi.py:102;
\* bytes are kept below 128 so that a 4-byte word fits TLC's integers.
MkData(length, seed) == [i \in 1..length |-> (i - 1 + seed) % 128]

(***************************************************************************)
(* Spec: both engines under non-blocking callers and a reordering slave.   *)
(***************************************************************************)
Tokens == {"t1"}
\* <<address, length, size>>: one burst of one beat, one burst of two beats,
\* two bursts of one beat (the range crosses the 4 KiB boundary at 4096)
Reqs == {<<0, 1, SizeNone>>, <<0, 2, 0>>, <<4095, 2, 0>>}
SlaveResps == {"OKAY", "SLVERR"}

Init ==
    /\ Construct({2}, 1..MaxIdWidth)
    /\ task = [pc |-> "off"]

Next ==
    \/ \E q \in Reqs, t \in Tokens \cup {None} :
          init_write(q[1], MkData(q[2], 1), q[3], t)
    \/ \E q \in Reqs, t \in Tokens \cup {None} :
          init_read(q[1], q[2], q[3], t)
    \/ \E t \in Tokens \cup {None} : get_write_resp(t)
    \/ \E t \in Tokens \cup {None} : get_read_data(t)
    \/ process_write
    \/ aw_drive_done
    \/ process_write_resp
    \/ process_read
    \/ ar_drive_done
    \/ process_read_resp
    \/ slave_write_burst
    \/ \E i \in 1..Len(slave.bq), r \in SlaveResps : slave_send_b(i, r)
    \/ \E i \in 1..Len(slave.arq), r \in SlaveResps : slave_send_r(i, r)

Spec == Init /\ [][Next]_vars

(***************************************************************************)
(* DataSpec: one test coroutine writes a buffer and reads it back through  *)
(* the blocking calls, against a memory slave that serves bursts in order. *)
(* The inputs are those of run_test_write/run_test_read (test_axi.py:      *)
(* 98-101, 206, 221): data widths 8, 16 and 32, every length below two     *)
(* words and one long buffer, every offset in the first and last word of a *)
(* 4 KiB page, every size up to the bus width.                             *)
(***************************************************************************)
ID_WIDTH == 8
TestWidths == {1, 2, 4}
TestLens == (1 .. (2 * byte_width - 1)) \cup {BigLen}
TestAddrs == {4096 + o : o \in (0 .. (byte_width - 1))
                              \cup ((4096 - byte_width) .. 4095)}
TestSizes == {SizeNone} \cup (0 .. max_burst_size)
Seeds == {0, 100}

InitData ==
    /\ Construct(TestWidths, {ID_WIDTH})
    /\ task \in {[pc |-> "start", address |-> a, data |-> MkData(l, sd),
                  size |-> s, token |-> None, wret |-> NoValue, rret |-> NoValue] :
                 a \in TestAddrs, l \in TestLens, s \in TestSizes, sd \in Seeds}

NextData ==
    \/ write
    \/ write_return
    \/ read
    \/ read_return
    \/ process_write
    \/ aw_drive_done
    \/ process_write_resp
    \/ process_read
    \/ ar_drive_done
    \/ process_read_resp
    \/ slave_write_burst
    \/ slave_send_b(1, "OKAY")
    \/ slave_read_burst

DataSpec == InitData /\ [][NextData]_vars

(***************************************************************************)
(* Properties of the data path, checked under DataSpec.                    *)
(***************************************************************************)
WriteDone == task.pc \in {"written", "read_wait", "done"}
FirstByte == task.address
LastByte == task.address + Len(task.data) - 1
Unaligned == task.address % byte_width # 0
Crosses4k == FirstByte \div 4096 # LastByte \div 4096
Narrow == task.size # SizeNone /\ 2^task.size < byte_width

\* C3: a write followed by a read of the same range returns the bytes that
\* were written, and exactly as many, whatever the alignment of the range.
C3_RoundTrip ==
    task.pc = "done" =>
        /\ Len(task.rret[1]) = Len(task.data)
        /\ task.rret[1] = task.data

\* an unaligned range across a 4 KiB boundary, moved in narrow beats
C3_Witness ==
    /\ task.pc = "done"
    /\ Unaligned /\ Crosses4k /\ Narrow
    /\ task.rret[1] = task.data

\* C4: the strobes of the W beats enable the bytes of
\* [address, address + len(data)) and no other: each byte is written once,
\* with data[i] at address + i, and the two neighbours stay untouched.
C4_NoSpill ==
    /\ \A a \in DOMAIN mem :
          /\ a \in FirstByte .. LastByte
          /\ mem[a].cnt = 1
          /\ mem[a].val = task.data[a - FirstByte + 1]
    /\ WriteDone =>
          /\ DOMAIN mem = FirstByte .. LastByte
          /\ MemRead(mem, FirstByte - 1) = Untouched
          /\ MemRead(mem, LastByte + 1) = Untouched

\* a long write that starts and ends inside a bus word
C4_Witness ==
    /\ task.pc = "written"
    /\ Unaligned
    /\ (LastByte + 1) % byte_width # 0
    /\ Len(task.data) > 2 * byte_width
    /\ DOMAIN mem = FirstByte .. LastByte

\* the bursts on the address channels and those the slave has accepted
IssuedAW == Range(aw_channel) \cup Range(slave.awq)
IssuedAR == Range(ar_channel) \cup Range(slave.arq)
Within4k(addr, len, size) == (addr % 4096) + (len + 1) * 2^size <= 4096

\* C5: no burst of the write engine or of the read engine crosses a 4 KiB
\* boundary: (addr mod 4096) + beats * 2^size <= 4096.
C5_No4kCrossing ==
    /\ \A aw \in IssuedAW : Within4k(aw.awaddr, aw.awlen, aw.awsize)
    /\ \A ar \in IssuedAR : Within4k(ar.araddr, ar.arlen, ar.arsize)

\* a read burst that ends at the last byte of its page while the request
\* goes on in the next page (the write of the same range came before it)
C5_Witness ==
    /\ WriteDone /\ Crosses4k
    /\ \E ar \in Range(ar_channel) :
          /\ (ar.araddr % 4096) + (ar.arlen + 1) * 2^ar.arsize = 4096
          /\ ar.araddr + (ar.arlen + 1) * 2^ar.arsize <= LastByte

\* C6: every burst has between 1 and 256 beats (awlen, arlen in 0..255).
C6_BurstLength ==
    /\ \A aw \in IssuedAW : aw.awlen \in 0 .. 255
    /\ \A ar \in IssuedAR : ar.arlen \in 0 .. 255

\* a burst of 256 beats of a request that needs more than 256
C6_Witness ==
    /\ \E aw \in Range(aw_channel) : aw.awlen = 255
    /\ wproc.cycles > 256

(***************************************************************************)
(* Properties of the ID pools and of the token registries, checked under   *)
(* Spec.  A burst is outstanding from the moment the issue task takes its  *)
(* ID until the response task has consumed its response: it is in the      *)
(* burst list of the request being issued, in a completion record on its   *)
(* way to the response task, or in the part of the response task's burst   *)
(* list that it has not finished.  The frame of a dead coroutine keeps its *)
(* bursts.                                                                 *)
(***************************************************************************)
Frame(p) == IF p.pc = "dead" THEN p.frame ELSE p
BurstsOf(rec) == IF "burst_list" \in DOMAIN rec THEN rec.burst_list ELSE <<>>
Unfinished(p) ==
    LET f == Frame(p) IN
    IF "i" \in DOMAIN f THEN SubSeq(f.burst_list, f.i, Len(f.burst_list))
    ELSE <<>>
RECURSIVE Handed(_)
Handed(q) == IF q = <<>> THEN <<>> ELSE Head(q).burst_list \o Handed(Tail(q))
Outstanding(issue, q, resp) ==
    Unfinished(resp) \o Handed(q) \o BurstsOf(Frame(issue))
OutstandingWrite ==
    Outstanding(wproc, write_if.int_write_resp_command_queue, wresp)
OutstandingRead ==
    Outstanding(rproc, read_if.int_read_resp_command_queue, rresp)
UsesOf(bursts, id) == Cardinality({j \in 1..Len(bursts) : bursts[j][1] = id})
NoDuplicate(q) == \A i, j \in 1..Len(q) : q[i] = q[j] => i = j
PoolInv(pool, bursts) ==
    /\ NoDuplicate(pool)
    /\ \A id \in AllIds :
          UsesOf(bursts, id) = IF id \in Range(pool) THEN 0 ELSE 1

\* C7: no ID is twice in a credit pool, and an ID is missing from the pool
\* exactly when one outstanding burst carries it, so that no two outstanding
\* bursts carry the same ID.
C7_IdPool ==
    /\ PoolInv(write_if.id_queue, OutstandingWrite)
    /\ PoolInv(read_if.id_queue, OutstandingRead)

\* ID 0 was taken, returned behind ID 1, and ID 1 is now out with a burst
C7_Witness ==
    /\ write_if.id_queue = <<0>>
    /\ UsesOf(OutstandingWrite, 1) = 1

\* C8: whenever an engine is idle its credit pool holds every ID.
C8_IdConservation ==
    /\ idle_write => Range(write_if.id_queue) = AllIds
    /\ idle_read => Range(read_if.id_queue) = AllIds

\* both engines idle again after a request each; the pools hold their IDs
\* in the order of return
C8_Witness ==
    /\ idle
    /\ write_if.id_queue = <<1, 0>>
    /\ read_if.id_queue = <<1, 0>>

\* a step of init_write or init_read
Submission ==
    \E q \in Reqs, tok \in Tokens \cup {None} :
        \/ init_write(q[1], MkData(q[2], 1), q[3], tok)
        \/ init_read(q[1], q[2], q[3], tok)
Intake(e) ==
    IF "write_command_queue" \in DOMAIN e THEN e.write_command_queue
    ELSE e.read_command_queue
Accepted(e, e2, tok) ==
    /\ Len(Intake(e2)) = Len(Intake(e)) + 1
    /\ e2.in_flight_operations = e.in_flight_operations + 1
    /\ e2.active_tokens = IF tok = None THEN e.active_tokens
                          ELSE e.active_tokens \cup {tok}
SubmissionOutcome ==
    LET tok == caller'.token
        wr == caller'.op = "init_write"
        e == IF wr THEN write_if ELSE read_if
        e2 == IF wr THEN write_if' ELSE read_if'
    IN IF tok # None /\ tok \in e.active_tokens
       THEN /\ caller'.exc = "Token is not unique"
            /\ write_if' = write_if
            /\ read_if' = read_if
            /\ caller'.accepted = caller.accepted
       ELSE /\ caller'.exc = None
            /\ Accepted(e, e2, tok)

\* C9: a submission with a token that is active fails and changes nothing
\* in the engine; a submission with a token that is not active (never used,
\* or retrieved since) is accepted.
C9_TokenUniqueness == [][Submission => SubmissionOutcome]_vars

\* the result of the first request with token t1 has been retrieved and
\* the second request with t1 has been accepted
C9_Witness ==
    /\ caller.ret # NoValue
    /\ caller.ret[1].token = "t1"
    /\ caller.op = "init_write" /\ caller.token = "t1" /\ caller.exc = None
    /\ caller.accepted = 2
    /\ "t1" \in write_if.active_tokens

QueueTokens(q) == {q[j].token : j \in 1..Len(q)} \ {None}
RegistryInv(active, completed, q) ==
    /\ completed \subseteq active
    /\ completed = QueueTokens(q)
TokenRegistry ==
    /\ RegistryInv(write_if.active_tokens, write_if.write_resp_set,
                   write_if.write_resp_queue)
    /\ RegistryInv(read_if.active_tokens, read_if.read_data_set,
                   read_if.read_data_queue)
Gone(tok, e, completed) ==
    tok # None => tok \notin e.active_tokens /\ tok \notin completed
Retrieval ==
    /\ Len(write_if'.write_resp_queue) < Len(write_if.write_resp_queue) =>
          /\ caller'.ret # NoValue
          /\ Gone(caller'.ret[1].token, write_if', write_if'.write_resp_set)
    /\ Len(read_if'.read_data_queue) < Len(read_if.read_data_queue) =>
          /\ caller'.ret # NoValue
          /\ Gone(caller'.ret[1].token, read_if', read_if'.read_data_set)

\* C10: the completed tokens are active tokens and are the tokens of the
\* results waiting in the results FIFO; a retrieval, by token or from the
\* head, takes the token of the result out of both sets.
C10_TokenRegistry == []TokenRegistry /\ [][Retrieval]_vars

\* the result with token t1 waits behind a result without token
C10_Witness ==
    /\ write_if.write_resp_set = {"t1"}
    /\ Len(write_if.write_resp_queue) = 2
    /\ write_if.write_resp_queue[2].token = "t1"

(***************************************************************************)
(* Out-of-order responses, checked under Spec, whose slave answers the     *)
(* bursts of different IDs in any order.                                   *)
(***************************************************************************)
\* the response task takes a beat whose ID is not the one it waits for
OutOfOrderB ==
    /\ wresp.pc = "wait_b" /\ b_channel # <<>>
    /\ Head(b_channel).bid # wresp.burst_list[wresp.i][1]
OutOfOrderR ==
    /\ rresp.pc = "wait_r" /\ r_channel # <<>>
    /\ Head(r_channel).rid # rresp.burst_list[rresp.i][1]

\* C2: a beat of another outstanding burst that arrives first is filed in
\* the FIFO of its own ID, which is created if it does not exist yet, and
\* the response task keeps running.
C2_OutOfOrderBuffered ==
    [][/\ (OutOfOrderB /\ process_write_resp) =>
             LET b == Head(b_channel) IN
             /\ wresp'.pc # "dead"
             /\ b.bid \in DOMAIN write_if'.int_write_resp_queue_list
             /\ b \in Range(write_if'.int_write_resp_queue_list[b.bid])
       /\ (OutOfOrderR /\ process_read_resp) =>
             LET r == Head(r_channel) IN
             /\ rresp'.pc # "dead"
             /\ r.rid \in DOMAIN read_if'.int_read_resp_queue_list
             /\ r \in Range(read_if'.int_read_resp_queue_list[r.rid])
      ]_vars

(***************************************************************************)
(* LiveSpec: requests of one, two and three bursts against a slave that    *)
(* answers every burst, in the order of issue, and channels that accept    *)
(* every handshake.                                                        *)
(***************************************************************************)
LongLen == 2 * max_burst_len + 1
\* <<address, length, size>> on a bus of one byte: one burst, two bursts
\* (across the 4 KiB boundary), three bursts (256 + 256 + 1 beats)
LiveReqs == {<<0, 1, 0>>, <<4095, 2, 0>>, <<0, LongLen, 0>>}

LiveInit ==
    /\ Construct({1}, 1..MaxIdWidth)
    /\ task = [pc |-> "off"]

LiveNext ==
    \/ \E q \in LiveReqs : init_write(q[1], MkData(q[2], 1), q[3], None)
    \/ \E q \in LiveReqs : init_read(q[1], q[2], q[3], None)
    \/ get_write_resp(None)
    \/ get_read_data(None)
    \/ process_write
    \/ aw_drive_done
    \/ process_write_resp
    \/ process_read
    \/ ar_drive_done
    \/ process_read_resp
    \/ slave_write_burst
    \/ slave_send_b(1, "OKAY")
    \/ slave_read_burst

LiveSpec == LiveInit /\ [][LiveNext]_vars

\* the conditions under which the steps of an engine and of the slave are
\* possible: the guards of process_write, aw_drive_done, process_write_resp,
\* slave_write_burst and slave_send_b, and of their counterparts for reads
IssueCanStep(p, command_sync, id_sync) ==
    \/ p.pc = "wait_cmd" /\ command_sync
    \/ p.pc = "wait_id" /\ id_sync
    \/ p.pc \in {"drive_aw", "drive_ar"}
RespCanStep(p, command_sync, channel) ==
    \/ p.pc = "wait_cmd" /\ command_sync
    \/ p.pc \in {"wait_b", "wait_r"} /\ channel # <<>>
WriteCanStep ==
    \/ IssueCanStep(wproc, write_if.write_command_sync, write_if.id_sync)
    \/ RespCanStep(wresp, write_if.int_write_resp_command_sync, b_channel)
    \/ slave.awq # <<>> /\ Len(w_channel) >= Head(slave.awq).awlen + 1
    \/ slave.bq # <<>>
ReadCanStep ==
    \/ IssueCanStep(rproc, read_if.read_command_sync, read_if.id_sync)
    \/ RespCanStep(rresp, read_if.int_read_resp_command_sync, r_channel)
    \/ slave.arq # <<>>

\* C1: every submitted request completes: its result is published and the
\* in-flight counter is decremented.  The tasks of an engine, the channels
\* and the slave take every step they can, and each of these steps brings a
\* request nearer to its completion; a request that is in flight completes
\* unless the engine comes to a state in which none of them has a step left
\* (no call of the test bench wakes a task that waits for an ID or for a
\* beat).  So: while a request is in flight, a step of the issue task, of a
\* channel, of the slave or of the response task is possible.
C1_Completes ==
    /\ write_if.in_flight_operations > 0 => WriteCanStep
    /\ read_if.in_flight_operations > 0 => ReadCanStep

(***************************************************************************)
(* ErrSpec: non-blocking callers that pass no token and whose requests     *)
(* include a size wider than the bus and empty ranges, against a slave     *)
(* that serves bursts in order.                                            *)
(***************************************************************************)
\* <<address, length, size>>: a valid request, a size of 4 bytes on a bus
\* of 2, an empty range at a word boundary and one inside a word
ErrReqs == {<<0, 1, SizeNone>>, <<0, 1, 2>>, <<0, 0, SizeNone>>,
            <<1, 0, SizeNone>>}

ErrInit ==
    /\ Construct({2}, 1..MaxIdWidth)
    /\ task = [pc |-> "off"]

ErrNext ==
    \/ \E q \in ErrReqs : init_write(q[1], MkData(q[2], 1), q[3], None)
    \/ \E q \in ErrReqs : init_read(q[1], q[2], q[3], None)
    \/ get_write_resp(None)
    \/ get_read_data(None)
    \/ process_write
    \/ aw_drive_done
    \/ process_write_resp
    \/ process_read
    \/ ar_drive_done
    \/ process_read_resp
    \/ slave_write_burst
    \/ slave_send_b(1, "OKAY")
    \/ slave_read_burst

ErrSpec == ErrInit /\ [][ErrNext]_vars

\* a submission is refused: the caller gets an exception, nothing is queued
Refused ==
    /\ caller'.exc # None
    /\ write_if' = write_if
    /\ read_if' = read_if

InvalidSize(size) == size # SizeNone /\ 2^size > byte_width
SubmitInvalidSize ==
    \E q \in ErrReqs :
        /\ InvalidSize(q[3])
        /\ \/ init_write(q[1], MkData(q[2], 1), q[3], None)
           \/ init_read(q[1], q[2], q[3], None)

\* C11: a request whose size is wider than the bus fails at submission: the
\* caller gets the error, the request is not queued, and the issue tasks
\* stay alive to process the requests submitted before and after it.
C11_InvalidSizeRefused ==
    /\ [][SubmitInvalidSize => Refused]_vars
    /\ [](wproc.pc # "dead" /\ rproc.pc # "dead")

SubmitEmpty ==
    \E q \in ErrReqs :
        /\ q[2] = 0
        /\ \/ init_write(q[1], MkData(q[2], 1), q[3], None)
           \/ init_read(q[1], q[2], q[3], None)

\* the issue task drives an address beat for a request of no bytes
EmptyIssued ==
    \/ wproc.pc = "drive_aw" /\ wproc.data = <<>>
    \/ rproc.pc = "drive_ar" /\ rproc.length = 0

\* C12: a write of no bytes and a read of length 0 are refused at submission
\* as a caller error, and no AW, AR or W beat is ever emitted for them,
\* whether the address is aligned or not.
C12_EmptyRefused ==
    /\ [][SubmitEmpty => Refused]_vars
    /\ []~EmptyIssued

\* a step of init_write or init_read in which the caller passes no token
SubmitNoToken ==
    \E q \in Reqs :
        \/ init_write(q[1], MkData(q[2], 1), q[3], None)
        \/ init_read(q[1], q[2], q[3], None)

\* the engine called has registered a token that was not active before
FreshTokenRegistered ==
    LET wr == caller'.op = "init_write"
        e == IF wr THEN write_if ELSE read_if
        e2 == IF wr THEN write_if' ELSE read_if'
    IN \E t \in e2.active_tokens \ e.active_tokens :
          /\ t # None
          /\ e2.active_tokens = e.active_tokens \cup {t}

\* C14: a submission without a token makes the engine create a fresh token,
\* register it in its set of active tokens and hand it back to the caller.
C14_FreshToken == [][SubmitNoToken => FreshTokenRegistered]_vars

(***************************************************************************)
(* The three wait() coroutines: AxiMasterWrite.wait (98-101),              *)
(* AxiMasterRead.wait (366-369) and AxiMaster.wait (599-602), called by a  *)
(* test coroutine (`task`) that names its target.  Each operator runs the  *)
(* coroutine up to its next await; s = [t, w]: the caller's frame and the  *)
(* write engine (the only object a wait() assigns to).                     *)
(***************************************************************************)
\* AxiMasterWrite.wait: the while loop, entered at its head
WriteWait(s) ==
    IF s.w.in_flight_operations = 0
    THEN [s EXCEPT !.t.pc = "write_waited"]
    ELSE [s EXCEPT !.w.write_resp_sync = FALSE,
                   !.t.pc = "wait_write_resp_sync"]

\* AxiMasterRead.wait: the loop body names self.read_resp_sync, an attribute
\* that AxiMasterRead.__init__ never sets (it sets read_data_sync)
ReadWait(s, r) ==
    IF r.in_flight_operations = 0
    THEN [s EXCEPT !.t.pc = "read_waited"]
    ELSE [s EXCEPT !.t = Dead(s.t, "AttributeError")]

\* the rest of AxiMaster.wait once write_if.wait() has returned
MasterWaitRead(s, r) ==
    LET s1 == ReadWait(s, r) IN
    IF s1.t.pc = "read_waited" THEN [s1 EXCEPT !.t.pc = "returned"] ELSE s1

\* AxiMaster.wait from the head of its while loop
MasterWait(s, r) ==
    IF s.w.in_flight_operations = 0 /\ r.in_flight_operations = 0
    THEN [s EXCEPT !.t.pc = "returned"]
    ELSE LET s1 == WriteWait(s) IN
         IF s1.t.pc = "write_waited" THEN MasterWaitRead(s1, r) ELSE s1

Returned(s) ==
    IF s.t.pc \in {"write_waited", "read_waited"}
    THEN [s EXCEPT !.t.pc = "returned"] ELSE s

\* the test coroutine calls `await target.wait()`
wait ==
    /\ task.pc = "start"
    /\ LET s == [t |-> task, w |-> write_if]
           s1 == CASE task.target = "write_if" -> Returned(WriteWait(s))
                   [] task.target = "read_if" -> Returned(ReadWait(s, read_if))
                   [] task.target = "axi_master" -> MasterWait(s, read_if)
       IN /\ task' = s1.t
          /\ write_if' = s1.w
    /\ UNCHANGED <<byte_width, id_width, wproc, wresp, aw_channel, w_channel,
                   b_channel, rvars, slave, mem, caller>>

\* write_resp_sync fired: AxiMasterWrite.wait goes round its loop
wait_resume ==
    /\ task.pc = "wait_write_resp_sync"
    /\ write_if.write_resp_sync
    /\ LET s == WriteWait([t |-> task, w |-> write_if])
           s1 == IF s.t.pc # "write_waited" THEN s
                 ELSE IF task.target = "write_if" THEN Returned(s)
                 ELSE MasterWaitRead(s, read_if)
       IN /\ task' = s1.t
          /\ write_if' = s1.w
    /\ UNCHANGED <<byte_width, id_width, wproc, wresp, aw_channel, w_channel,
                   b_channel, rvars, slave, mem, caller>>

(***************************************************************************)
(* WaitSpec: a caller submits requests without waiting for them and takes  *)
(* their results; a test coroutine calls wait() on one of the three        *)
(* objects at any moment; the slave serves bursts in order.                *)
(***************************************************************************)
WaitTargets == {"write_if", "read_if", "axi_master"}

WaitInit ==
    /\ Construct({2}, 1..MaxIdWidth)
    /\ task \in {[pc |-> "start", target |-> x] : x \in WaitTargets}

WaitNext ==
    \/ \E q \in Reqs : init_write(q[1], MkData(q[2], 1), q[3], None)
    \/ \E q \in Reqs : init_read(q[1], q[2], q[3], None)
    \/ get_write_resp(None)
    \/ get_read_data(None)
    \/ wait
    \/ wait_resume
    \/ process_write
    \/ aw_drive_done
    \/ process_write_resp
    \/ process_read
    \/ ar_drive_done
    \/ process_read_resp
    \/ slave_write_burst
    \/ slave_send_b(1, "OKAY")
    \/ slave_read_burst

WaitSpec == WaitInit /\ [][WaitNext]_vars

\* idle() of the object the test coroutine waits on
TargetIdle ==
    CASE task.target = "write_if" -> idle_write
      [] task.target = "read_if" -> idle_read
      [] task.target = "axi_master" -> idle

\* C13: wait() of the write engine, of the read engine and of the facade,
\* called while requests are in flight, suspends the caller and never
\* raises; called on an idle object it returns at once; and a caller that
\* is suspended can go on as soon as the object is idle.
C13_WaitIdle ==
    /\ [][wait => IF TargetIdle THEN task'.pc = "returned"
                  ELSE task'.pc = "wait_write_resp_sync"]_vars
    /\ [](task.pc # "dead")
    /\ [](task.pc = "wait_write_resp_sync" /\ TargetIdle
             => write_if.write_resp_sync)

(***************************************************************************)
(* FaultSpec: non-blocking callers against a slave that answers in order   *)
(* and reports an error code that depends on the address: the B beat of a  *)
(* burst carries the code of the burst's first address, each R beat the    *)
(* code of its own address.  The test bench fixes the codes (task.fault)   *)
(* and the addresses of the R beats whose rlast the slave inverts          *)
(* (task.badlast, empty in FaultSpec).                                     *)
(* All requests use beats of one byte, so beat k of a request is at        *)
(* address + k.                                                            *)
(***************************************************************************)
RespCodes == {"OKAY", "EXOKAY", "SLVERR", "DECERR"}
FaultAddrs == {4094, 4095, 4096}
\* <<address, length, size>>: two bursts (of 2 beats and of 1 beat) on the
\* faulty addresses, and one beat on an address that never faults
FaultReqs == {<<4094, 3, 0>>, <<0, 1, 0>>}

FaultCode(a) == IF a \in DOMAIN task.fault THEN task.fault[a] ELSE "OKAY"

\* the oldest accepted write burst has all its W beats: write it and answer
slave_fault_write ==
    /\ slave.awq # <<>>
    /\ LET aw == Head(slave.awq) IN
       /\ Len(w_channel) >= aw.awlen + 1
       /\ mem' = ApplyBurst(mem, aw, w_channel)
       /\ w_channel' = SubSeq(w_channel, aw.awlen + 2, Len(w_channel))
       /\ slave' = [slave EXCEPT !.awq = Tail(@)]
       /\ b_channel' = Append(b_channel, [bid |-> aw.awid,
                                          bresp |-> FaultCode(aw.awaddr)])
    /\ UNCHANGED <<byte_width, id_width, write_if, wproc, wresp, aw_channel,
                   rvars, caller, task>>

\* send the next R beat of the oldest accepted read burst
slave_fault_read ==
    /\ slave.arq # <<>>
    /\ LET ar == Head(slave.arq)
           code == FaultCode(ar.araddr + ar.sent * 2^ar.arsize)
           beat == RBeat(mem, ar, ar.sent, code)
           bad == ar.araddr + ar.sent * 2^ar.arsize \in task.badlast
       IN /\ r_channel' = Append(r_channel,
                 [beat EXCEPT !.rlast = IF bad THEN ~@ ELSE @])
          /\ slave' = [slave EXCEPT !.arq =
                 IF ar.sent = ar.arlen THEN Tail(@)
                 ELSE [@ EXCEPT ![1].sent = @ + 1]]
    /\ UNCHANGED <<byte_width, id_width, wvars, read_if, rproc, rresp,
                   ar_channel, mem, caller, task>>

FaultInit ==
    /\ Construct({2}, 1..MaxIdWidth)
    /\ task \in {[pc |-> "off", fault |-> f, badlast |-> {}] :
                 f \in [FaultAddrs -> RespCodes]}

FaultNext ==
    \/ \E q \in FaultReqs : init_write(q[1], MkData(q[2], 1), q[3], None)
    \/ \E q \in FaultReqs : init_read(q[1], q[2], q[3], None)
    \/ get_write_resp(None)
    \/ get_read_data(None)
    \/ process_write
    \/ aw_drive_done
    \/ process_write_resp
    \/ process_read
    \/ ar_drive_done
    \/ process_read_resp
    \/ slave_fault_write
    \/ slave_fault_read

FaultSpec == FaultInit /\ [][FaultNext]_vars

\* the code of the last address of addrs that is answered with an error
LastFault(addrs) ==
    LET bad == {a \in addrs : FaultCode(a) # "OKAY"} IN
    IF bad = {} THEN "OKAY"
    ELSE FaultCode(CHOOSE a \in bad : \A b \in bad : b <= a)
\* first addresses of the bursts of a request, beat addresses of a request
BurstStarts(addr, length) ==
    {addr} \cup {a \in (addr + 1) .. (addr + length - 1) : a % 4096 = 0}
BeatAddrs(addr, length) == addr .. (addr + length - 1)

\* C15: the response code of a result is OKAY if and only if every beat
\* consumed for the request was OKAY, and otherwise the code of the last
\* beat that was not OKAY, in burst order and then beat order, whatever the
\* codes of the beats before it (EXOKAY after DECERR gives EXOKAY).
C15_AggregateResp ==
    /\ \A i \in 1..Len(write_if.write_resp_queue) :
          LET r == write_if.write_resp_queue[i] IN
          r.resp = LastFault(BurstStarts(r.addr, r.length))
    /\ \A i \in 1..Len(read_if.read_data_queue) :
          LET r == read_if.read_data_queue[i] IN
          r.resp = LastFault(BeatAddrs(r.addr, Len(r.data)))

\* a read whose beats came back DECERR, EXOKAY, OKAY, and a write whose
\* bursts came back DECERR, OKAY
C15_Witness ==
    /\ task.fault[4094] = "DECERR" /\ task.fault[4095] = "EXOKAY"
    /\ task.fault[4096] = "OKAY"
    /\ \E i \in 1..Len(read_if.read_data_queue) :
          /\ read_if.read_data_queue[i].addr = 4094
          /\ read_if.read_data_queue[i].resp = "EXOKAY"
    /\ \E i \in 1..Len(write_if.write_resp_queue) :
          /\ write_if.write_resp_queue[i].addr = 4094
          /\ write_if.write_resp_queue[i].resp = "DECERR"

\* the length of the request of FaultReqs at an address
ReqLen(addr) == (CHOOSE q \in FaultReqs : q[1] = addr)[2]
NoTaskDead ==
    /\ wproc.pc # "dead" /\ wresp.pc # "dead"
    /\ rproc.pc # "dead" /\ rresp.pc # "dead"

\* C16: error codes of the slave do not abort anything: no task of the
\* engines ends, every request in flight can go on to its completion, a
\* result carries the full payload (all bytes written, all bytes read),
\* all IDs are back in the pool once the engine is idle, and a request
\* whose own beats are all OKAY completes with OKAY whatever the codes of
\* the requests in flight with it.
C16_ErrorsDoNotAbort ==
    /\ NoTaskDead
    /\ write_if.in_flight_operations > 0 => WriteCanStep
    /\ read_if.in_flight_operations > 0 => ReadCanStep
    /\ \A i \in 1..Len(write_if.write_resp_queue) :
          LET r == write_if.write_resp_queue[i] IN
          /\ r.length = ReqLen(r.addr)
          /\ r.addr = 0 => r.resp = "OKAY"
    /\ \A i \in 1..Len(read_if.read_data_queue) :
          LET r == read_if.read_data_queue[i] IN
          /\ Len(r.data) = ReqLen(r.addr)
          /\ \A j \in 1..Len(r.data) :
                r.data[j] \in {Untouched, MkData(ReqLen(r.addr), 1)[j]}
          /\ r.addr = 0 => r.resp = "OKAY"
    /\ idle_write => Range(write_if.id_queue) = AllIds
    /\ idle_read => Range(read_if.id_queue) = AllIds

\* the write engine has completed a request of two bursts whose second
\* burst was answered SLVERR, and after it a request without error, with
\* all bytes written and all IDs back
C16_Witness ==
    /\ idle_write
    /\ Len(write_if.write_resp_queue) = 2
    /\ write_if.write_resp_queue[1].resp = "SLVERR"
    /\ write_if.write_resp_queue[1].length = 3
    /\ write_if.write_resp_queue[2].resp = "OKAY"
    /\ task.fault[4096] = "SLVERR"
    /\ DOMAIN mem = {0, 4094, 4095, 4096}
    /\ Range(write_if.id_queue) = AllIds

(***************************************************************************)
(* The W beats of the request of DataSpec, stated from the addresses: beat *)
(* k moves the bytes of the request that lie in the k-th block of          *)
(* num_bytes bytes, counted from the aligned address.                      *)
(***************************************************************************)
ReqBytes == IF task.size = SizeNone THEN byte_width ELSE 2^task.size
ReqBase == task.address - (task.address % ReqBytes)
ReqCycles == write_cycles(task.address, Len(task.data), ReqBytes)
\* number of W beats the issue task has queued so far
Emitted ==
    IF "k" \in DOMAIN wproc THEN wproc.k
    ELSE IF task.pc # "start" /\ write_if.write_command_queue = <<>>
         THEN ReqCycles ELSE 0
\* the bus word of beat k and the offset of the beat in it
BeatWord(k) ==
    (ReqBase + k * ReqBytes) - ((ReqBase + k * ReqBytes) % byte_width)
BeatOffset(k) == (ReqBase + k * ReqBytes) % byte_width
StrbStart(k) ==
    IF k = 0 THEN task.address % byte_width ELSE BeatOffset(k)
StrbStop(k) ==
    IF k = ReqCycles - 1 THEN (LastByte % byte_width) + 1
    ELSE BeatOffset(k) + ReqBytes
StrbBit(b, lane) == (b.wstrb \div 2^lane) % 2 = 1
DataLane(b, lane) == (b.wdata \div 256^lane) % 256
\* lane of beat k carries a byte of the caller
CarriesByte(k, lane) ==
    /\ BeatWord(k) + lane \in FirstByte .. LastByte
    /\ lane \in BeatOffset(k) .. (BeatOffset(k) + ReqBytes - 1)

\* C17: in every W beat k a strobe bit is set if and only if its lane
\* carries a byte of the caller; the lanes set are exactly [start, stop)
\* with start the offset of the first byte on the first beat (else the
\* offset of the beat) and stop the offset after the last byte on the last
\* beat (else the offset of the beat plus the beat size); a lane that is
\* set holds its byte of the data, every other lane of wdata is zero.
C17_Strobes ==
    \A j \in 1..Len(w_channel) :
        LET k == Emitted - Len(w_channel) + j - 1
            b == w_channel[j]
        IN \A lane \in 0..(byte_width - 1) :
              /\ StrbBit(b, lane) <=> CarriesByte(k, lane)
              /\ StrbBit(b, lane) <=> lane \in StrbStart(k) .. (StrbStop(k) - 1)
              /\ DataLane(b, lane) =
                    IF StrbBit(b, lane)
                    THEN task.data[BeatWord(k) + lane - FirstByte + 1]
                    ELSE 0

\* a first beat that starts inside a bus word, a last beat that ends inside
\* one, and narrow beats in between, all queued on the W channel
C17_Witness ==
    /\ byte_width = 4 /\ ReqBytes = 2
    /\ task.address % 4 = 1 /\ Len(task.data) = 6
    /\ Len(w_channel) = 4
    /\ w_channel[1].wstrb = 2 /\ w_channel[2].wstrb = 12
    /\ w_channel[3].wstrb = 3 /\ w_channel[4].wstrb = 4
    /\ w_channel[2].wdata = task.data[2] * 256^2 + task.data[3] * 256^3

\* 1 if the coroutine p holds a request: its frame (the last one, if p has
\* ended) has the field in which the coroutine keeps the request's address
Holds(p, field) == IF field \in DOMAIN Frame(p) THEN 1 ELSE 0
\* requests submitted whose result is not published: those in the command
\* queue, the one being issued, those handed to the response task, the one
\* whose responses are being collected
Unpublished(intake, issue, pending, resp) ==
    Len(intake) + Holds(issue, "address") + Len(pending) + Holds(resp, "addr")
UnpublishedWrite ==
    Unpublished(write_if.write_command_queue, wproc,
                write_if.int_write_resp_command_queue, wresp)
UnpublishedRead ==
    Unpublished(read_if.read_command_queue, rproc,
                read_if.int_read_resp_command_queue, rresp)
RetrievalStep ==
    \E t \in Tokens \cup {None} : get_write_resp(t) \/ get_read_data(t)

\* C19: the in-flight counter of an engine is never negative and equals the
\* number of requests submitted whose result is not yet published (queued,
\* being issued, or awaiting responses); idle() holds exactly when there are
\* none; taking a result out of the result queue changes neither.
C19_InFlight ==
    /\ [](/\ write_if.in_flight_operations >= 0
          /\ read_if.in_flight_operations >= 0
          /\ write_if.in_flight_operations = UnpublishedWrite
          /\ read_if.in_flight_operations = UnpublishedRead
          /\ idle_write <=> UnpublishedWrite = 0
          /\ idle_read <=> UnpublishedRead = 0
          /\ idle <=> UnpublishedWrite + UnpublishedRead = 0)
    /\ [][RetrievalStep =>
             /\ write_if'.in_flight_operations = write_if.in_flight_operations
             /\ read_if'.in_flight_operations = read_if.in_flight_operations
             /\ idle' = idle]_vars

\* a write has been published and its result taken out, so the write
\* engine is idle; a read submitted before that is awaiting its responses
C19_Witness ==
    /\ caller.accepted = 2
    /\ caller.ret # NoValue /\ "length" \in DOMAIN caller.ret[1]
    /\ write_if.write_resp_queue = <<>>
    /\ idle_write /\ ~idle
    /\ read_if.in_flight_operations = 1
    /\ Holds(rresp, "addr") = 1 /\ rresp.pc = "wait_r"

(***************************************************************************)
(* LastSpec: the requests and the slave of FaultSpec, without error codes; *)
(* the slave inverts rlast on the R beat of one address.                   *)
(***************************************************************************)
\* the only beat of a burst, the first and the last beat of a burst of two
BadLastAddrs == {0, 4094, 4095, 4096}

LastInit ==
    /\ Construct({2}, 1..MaxIdWidth)
    /\ task \in {[pc |-> "off", fault |-> [x \in FaultAddrs |-> "OKAY"],
                  badlast |-> {a}] : a \in BadLastAddrs}

LastSpec == LastInit /\ [][FaultNext]_vars

\* beats of the bursts before the i-th one
RECURSIVE BeatsBefore(_, _)
BeatsBefore(bursts, i) ==
    IF i <= 1 THEN 0 ELSE bursts[i - 1][2] + BeatsBefore(bursts, i - 1)
\* R beats the response task has accepted for the request of its frame f
Consumed(f) == BeatsBefore(f.burst_list, f.i) + f.k
\* positions, in a request, of the beats that come with a wrong rlast
BadBeats(addr, length) ==
    {a - addr : a \in task.badlast \cap BeatAddrs(addr, length)}

\* C20: the k-th R beat of a burst must have rlast = (k = beats - 1).  The
\* read response task accepts the beats before a beat with a wrong rlast,
\* ends with a fatal error (AssertionError) on that beat and on nothing
\* else, and no result is ever published for the request of that beat.
C20_RlastChecked ==
    /\ \A i \in 1..Len(read_if.read_data_queue) :
          LET r == read_if.read_data_queue[i] IN
          BadBeats(r.addr, ReqLen(r.addr)) = {}
    /\ caller.ret # NoValue /\ "data" \in DOMAIN caller.ret[1]
          => BadBeats(caller.ret[1].addr, ReqLen(caller.ret[1].addr)) = {}
    /\ rresp.pc = "dead" => "addr" \in DOMAIN rresp.frame
    /\ LET f == Frame(rresp) IN
       "addr" \in DOMAIN f =>
          LET bad == BadBeats(f.addr, f.length) IN
          IF rresp.pc = "dead"
          THEN rresp.exc = "AssertionError" /\ Consumed(f) \in bad
          ELSE \A b \in bad : Consumed(f) <= b

\* the second beat of a burst of two came without rlast: the task has taken
\* the first beat and ended on the second, the request stays unpublished
C20_Witness ==
    /\ task.badlast = {4095}
    /\ rresp.pc = "dead" /\ rresp.exc = "AssertionError"
    /\ rresp.frame.addr = 4094 /\ rresp.frame.k = 1 /\ rresp.frame.i = 1
    /\ read_if.read_data_queue = <<>>
    /\ read_if.in_flight_operations = 1
    /\ slave.arq = <<>>

(***************************************************************************)
(* ConcSpec: the workers of run_stress_test (test_axi.py:156-174), forked  *)
(* on one master.  Each worker writes a buffer into its own aperture with  *)
(* the blocking write() and reads it back with the blocking read().  Here  *)
(* `task` maps each worker to its frame.  The slave keeps the order of the *)
(* responses of one ID and is free in the order across IDs.                *)
(*                                                                         *)
(* Event.set() schedules every coroutine that waits on the event; a        *)
(* clear() by the first of them to run does not take the others off the    *)
(* schedule.  A frame's `woken` records that the waiter was scheduled by a *)
(* set() whose flag another coroutine has cleared since.                   *)
(***************************************************************************)
Workers == {1, 2}
ObjectToken(kind, w) ==
    IF kind = "w" THEN <<"object_w1", "object_w2", "object_w3">>[w]
    ELSE <<"object_r1", "object_r2", "object_r3">>[w]

\* Faulty variant: a clear takes the wake-up from the waiters that have not
\* run yet.
Clear_unschedules(t, w, pc, fired) == t

\* worker w clears an event that is fired: the waiters at pc stay scheduled
Clear(t, w, pc, fired) ==
    [v \in DOMAIN t |->
        IF v # w /\ t[v].pc = pc /\ fired THEN [t[v] EXCEPT !.woken = TRUE]
        ELSE t[v]]

\* write(): init_write, then wait_for_token up to its first await (103-108)
worker_write(w) ==
    /\ task[w].pc = "start"
    /\ LET tok == ObjectToken("w", w)
           r == InitWrite(write_if, task[w].address, task[w].data,
                          task[w].size, tok)
       IN /\ r.exc = None
          /\ write_if' = [r.e EXCEPT !.write_resp_sync = FALSE]
          /\ task' = [Clear(task, w, "write_wait", write_if.write_resp_sync)
                        EXCEPT ![w].pc = "write_wait", ![w].token = tok]
    /\ UNCHANGED <<byte_width, id_width, wproc, wresp, aw_channel, w_channel,
                   b_channel, rvars, slave, mem, caller>>

\* write_resp_sync fired: the while loop of wait_for_token, then line 137
worker_write_return(w) ==
    /\ task[w].pc = "write_wait"
    /\ write_if.write_resp_sync \/ task[w].woken
    /\ IF task[w].token \notin write_if.write_resp_set
       THEN /\ write_if' = [write_if EXCEPT !.write_resp_sync = FALSE]
            /\ task' = [Clear(task, w, "write_wait", write_if.write_resp_sync)
                          EXCEPT ![w].woken = FALSE]
       ELSE LET r == GetWriteResp(write_if, task[w].token) IN
            /\ write_if' = r.e
            /\ task' = [task EXCEPT ![w] =
                          IF r.ret = NoValue THEN Dead(@, "TypeError")
                          ELSE [@ EXCEPT !.pc = "written", !.woken = FALSE,
                                         !.wret = <<r.ret[1].length,
                                                    r.ret[1].resp>>]]
    /\ UNCHANGED <<byte_width, id_width, wproc, wresp, aw_channel, w_channel,
                   b_channel, rvars, slave, mem, caller>>

\* read(): init_read, then wait_for_token up to its first await (371-376)
worker_read(w) ==
    /\ task[w].pc = "written"
    /\ LET tok == ObjectToken("r", w)
           r == InitRead(read_if, task[w].address, Len(task[w].data),
                         task[w].size, tok)
       IN /\ r.exc = None
          /\ read_if' = [r.e EXCEPT !.read_data_sync = FALSE]
          /\ task' = [Clear(task, w, "read_wait", read_if.read_data_sync)
                        EXCEPT ![w].pc = "read_wait", ![w].token = tok]
    /\ UNCHANGED <<byte_width, id_width, wvars, rproc, rresp, ar_channel,
                   r_channel, slave, mem, caller>>

\* read_data_sync fired: the while loop of wait_for_token, then line 405
worker_read_return(w) ==
    /\ task[w].pc = "read_wait"
    /\ read_if.read_data_sync \/ task[w].woken
    /\ IF task[w].token \notin read_if.read_data_set
       THEN /\ read_if' = [read_if EXCEPT !.read_data_sync = FALSE]
            /\ task' = [Clear(task, w, "read_wait", read_if.read_data_sync)
                          EXCEPT ![w].woken = FALSE]
       ELSE LET r == GetReadData(read_if, task[w].token) IN
            /\ read_if' = r.e
            /\ task' = [task EXCEPT ![w] =
                          IF r.ret = NoValue THEN Dead(@, "TypeError")
                          ELSE [@ EXCEPT !.pc = "done", !.woken = FALSE,
                                         !.rret = <<r.ret[1].data,
                                                    r.ret[1].resp>>]]
    /\ UNCHANGED <<byte_width, id_width, wvars, rproc, rresp, ar_channel,
                   r_channel, slave, mem, caller>>

\* worker k works on the aperture at k * 0x1000; test_data of 1 or 3 bytes,
\* at the start of the aperture or one byte into it
ConcInit ==
    /\ Construct({2}, {ID_WIDTH})
    /\ \E o \in [Workers -> {0, 1}], l \in [Workers -> {1, 3}] :
          task = [w \in Workers |->
                    [pc |-> "start", address |-> w * 4096 + o[w],
                     data |-> MkData(l[w], 16 * w), size |-> SizeNone,
                     token |-> None, wret |-> NoValue, rret |-> NoValue,
                     woken |-> FALSE]]

ConcNext ==
    \/ \E w \in DOMAIN task : worker_write(w)
    \/ \E w \in DOMAIN task : worker_write_return(w)
    \/ \E w \in DOMAIN task : worker_read(w)
    \/ \E w \in DOMAIN task : worker_read_return(w)
    \/ process_write
    \/ aw_drive_done
    \/ process_write_resp
    \/ process_read
    \/ ar_drive_done
    \/ process_read_resp
    \/ slave_write_burst
    \/ \E i \in 1..Len(slave.bq) : slave_send_b(i, "OKAY")
    \/ \E i \in 1..Len(slave.arq) : slave_send_r(i, "OKAY")

ConcSpec == ConcInit /\ [][ConcNext]_vars

AllDone == \A w \in Workers : task[w].pc = "done"

\* C18: whatever the interleaving of the workers and the order in which the
\* slave answers bursts of different IDs, every call completes (no task of
\* the engines and no worker ends with an exception), each read returns
\* exactly the bytes its worker wrote, and the master is idle when all
\* workers are done.
C18_Isolation ==
    /\ NoTaskDead
    /\ \A w \in Workers :
          /\ task[w].pc # "dead"
          /\ task[w].pc = "done" => task[w].rret[1] = task[w].data
    /\ AllDone => idle

(***************************************************************************)
(* OrderSpec: a caller whose k-th request (over both engines) lies 8 KiB   *)
(* above its (k-1)-th, each of two bursts of one beat on either side of a  *)
(* 4 KiB boundary, so that the order of submission and the order of the    *)
(* bursts within a request are both the order of the addresses.  The slave *)
(* answers write bursts in order and leaves read bursts unanswered, so     *)
(* that slave.arq keeps every AR it has accepted, in the order of          *)
(* acceptance; of the AWs, slave.awq keeps those not yet written and mem   *)
(* the addresses of those written (the slave writes them in order).        *)
(***************************************************************************)
OrderReq(k) == <<4095 + 8192 * k, 2, 0>>

OrderInit ==
    /\ Construct({2}, (1..MaxIdWidth) \cup {ID_WIDTH})
    /\ task = [pc |-> "off"]

OrderNext ==
    \/ LET q == OrderReq(caller.accepted) IN
       init_write(q[1], MkData(q[2], 1), q[3], None)
    \/ LET q == OrderReq(caller.accepted) IN
       init_read(q[1], q[2], q[3], None)
    \/ process_write
    \/ aw_drive_done
    \/ process_write_resp
    \/ process_read
    \/ ar_drive_done
    \/ process_read_resp
    \/ slave_write_burst
    \/ slave_send_b(1, "OKAY")

OrderSpec == OrderInit /\ [][OrderNext]_vars

\* C21: the address transactions of an engine are accepted in the order of
\* the bursts within a request, and all those of a request before any of a
\* request submitted later.
C21_IssueOrder ==
    /\ \A i, j \in 1..Len(slave.awq) :
          i < j => slave.awq[i].awaddr < slave.awq[j].awaddr
    /\ \A a \in DOMAIN mem : \A i \in 1..Len(slave.awq) :
          a < slave.awq[i].awaddr
    /\ \A i, j \in 1..Len(slave.arq) :
          i < j => slave.arq[i].araddr < slave.arq[j].araddr

\* both bursts of the first read and then both bursts of the second have
\* been accepted
C21_Witness ==
    /\ Len(slave.arq) = 4
    /\ slave.arq[1].araddr = 4095 /\ slave.arq[2].araddr = 4096
    /\ slave.arq[3].araddr = 4095 + 8192 /\ slave.arq[4].araddr = 4096 + 8192

(***************************************************************************)
(* ReorderSpec: three workers of the stress test on a master with a pool   *)
(* of two IDs, each moving one byte in its own aperture, against the slave *)
(* of ConcSpec (free in the order across IDs).  Three requests are the     *)
(* fewest with which a beat of a later request can arrive before the beat  *)
(* of an earlier one and find the FIFO of its ID in place.                 *)
(***************************************************************************)
ReorderInit ==
    /\ Construct({2}, 1..MaxIdWidth)
    /\ task = [w \in {1, 2, 3} |->
                 [pc |-> "start", address |-> w * 4096,
                  data |-> MkData(1, 16 * w), size |-> SizeNone,
                  token |-> None, wret |-> NoValue, rret |-> NoValue,
                  woken |-> FALSE]]

ReorderSpec == ReorderInit /\ [][ConcNext]_vars

\* what identifies a request in a command, a frame, a pending response or
\* a result: its address, its length and its token
ReqKey(rec) ==
    <<IF "address" \in DOMAIN rec THEN rec.address ELSE rec.addr,
      IF "length" \in DOMAIN rec THEN rec.length ELSE Len(rec.data),
      rec.token>>
ReqKeys(q) == [i \in 1..Len(q) |-> ReqKey(q[i])]
HeldKey(p, field) ==
    IF field \in DOMAIN Frame(p) THEN <<ReqKey(Frame(p))>> ELSE <<>>
\* the unpublished requests of an engine: the one whose responses are being
\* collected, those handed to the response task, the one being issued,
\* those in the command queue
UnpublishedKeys(resp, pending, issue, intake) ==
    HeldKey(resp, "addr") \o ReqKeys(pending)
        \o HeldKey(issue, "address") \o ReqKeys(intake)
\* a step from unpublished requests U and results q to U2 and q2 keeps the
\* order of intake: a submission adds to the end of U, a publication moves
\* requests from the head of U to the end of q, a retrieval leaves U alone
KeepsIntakeOrder(U, q, U2, q2) ==
    \/ U2 = U /\ Len(q2) <= Len(q)
    \/ q2 = q /\ Len(U2) = Len(U) + 1 /\ SubSeq(U2, 1, Len(U)) = U
    \/ \E n \in 1..Len(U) :
          /\ ReqKeys(q2) = ReqKeys(q) \o SubSeq(U, 1, n)
          /\ U2 = SubSeq(U, n + 1, Len(U))

\* the response task waits for a beat of the request in its frame while
\* every burst <<id, beats>> of a request handed to it later is answered
\* in full: the beats are filed in the FIFO of the burst's ID
AnsweredFirst(resp, pending, fifos) ==
    /\ resp.pc \in {"wait_b", "wait_r"}
    /\ \E i \in 1..Len(pending) :
          \A j \in 1..Len(pending[i].burst_list) :
             LET b == pending[i].burst_list[j] IN
             /\ b[1] \in DOMAIN fifos
             /\ b[1] # resp.burst_list[resp.i][1]
             /\ Len(fifos[b[1]]) >= IF resp.pc = "wait_b" THEN 1 ELSE b[2]

\* C22 as stated: requests with disjoint IDs complete in the order in which
\* the slave answers them, so a request whose bursts are all answered is
\* published although a request submitted before it still waits for its
\* answers.
C22_AnswerOrder ==
    /\ ~AnsweredFirst(wresp, write_if.int_write_resp_command_queue,
                      write_if.int_write_resp_queue_list)
    /\ ~AnsweredFirst(rresp, read_if.int_read_resp_command_queue,
                      read_if.int_read_resp_queue_list)

\* C22, amended: on each engine the results are published in the order of
\* submission, whatever the IDs of the bursts and the order of the slave's
\* answers.
C22_IntakeOrder ==
    [][/\ KeepsIntakeOrder(
              UnpublishedKeys(wresp, write_if.int_write_resp_command_queue,
                              wproc, write_if.write_command_queue),
              write_if.write_resp_queue,
              UnpublishedKeys(wresp', write_if'.int_write_resp_command_queue,
                              wproc', write_if'.write_command_queue),
              write_if'.write_resp_queue)
       /\ KeepsIntakeOrder(
              UnpublishedKeys(rresp, read_if.int_read_resp_command_queue,
                              rproc, read_if.read_command_queue),
              read_if.read_data_queue,
              UnpublishedKeys(rresp', read_if'.int_read_resp_command_queue,
                              rproc', read_if'.read_command_queue),
              read_if'.read_data_queue)]_vars

\* the slave has answered the write of worker 3 before the write of worker
\* 2, submitted earlier; the B beat of worker 3 is filed and its result is
\* not published
C22_Witness ==
    /\ AnsweredFirst(wresp, write_if.int_write_resp_command_queue,
                     write_if.int_write_resp_queue_list)
    /\ wresp.addr = 2 * 4096
    /\ write_if.int_write_resp_command_queue[1].addr = 3 * 4096
    /\ task[3].pc = "write_wait"

(***************************************************************************)
(* S3Spec: the large write of the scenarios, 1024 bytes at 0x1000 on a bus *)
(* of 4 bytes in beats of 4 bytes, read back, under the actions of         *)
(* DataSpec; beside it the writes one beat shorter and one beat longer.    *)
(***************************************************************************)
S3Init ==
    /\ Construct({4}, {ID_WIDTH})
    /\ task \in {[pc |-> "start", address |-> 4096, data |-> MkData(l, sd),
                  size |-> 2, token |-> None, wret |-> NoValue,
                  rret |-> NoValue] : l \in {1020, 1024, 1028}, sd \in Seeds}

S3Spec == S3Init /\ [][NextData]_vars

IsS3 == task.address = 4096 /\ Len(task.data) = 1024 /\ task.size = 2

\* the bursts planned so far for the write: those of the request being
\* issued, of the requests handed to the response task and of the one whose
\* responses are collected
WritePlans ==
    {BurstsOf(p) : p \in {Frame(wproc), Frame(wresp)}
                         \cup Range(write_if.int_write_resp_command_queue)}

\* C23 as stated: the write of S3 is planned as 4 bursts of 64 beats each.
C23_FourBursts ==
    IsS3 =>
    \A p \in Range(write_if.int_write_resp_command_queue) :
       /\ Len(p.burst_list) = 4
       /\ \A j \in 1..Len(p.burst_list) : p.burst_list[j][2] = 64

\* C23, amended: the write of S3 is planned as one burst of 256 beats at
\* 0x1000: 256 beats of 4 bytes are within the cap of 256 beats and end at
\* the 4 KiB boundary 0x2000 without crossing it.
C23_OneBurst ==
    IsS3 =>
    /\ \A aw \in IssuedAW :
          aw.awaddr = 4096 /\ aw.awlen = 255 /\ aw.awsize = 2
    /\ \A bl \in WritePlans :
          Len(bl) <= 1 /\ \A j \in 1..Len(bl) : bl[j][2] = 256
    /\ \A p \in Range(write_if.int_write_resp_command_queue) :
          Len(p.burst_list) = 1 /\ p.cycles = 256
    /\ WriteDone => DOMAIN mem = 4096 .. (4096 + 1023)

\* the whole write has been issued and handed to the response task as one
\* burst of 256 beats
C23_Witness ==
    /\ IsS3
    /\ Len(write_if.int_write_resp_command_queue) = 1
    /\ write_if.int_write_resp_command_queue[1].burst_list = <<<<0, 256>>>>
    /\ \E aw \in IssuedAW : aw.awlen = 255

(***************************************************************************)
(* TakeSpec: two workers of the stress test, one byte each, beside a       *)
(* caller that submits a write of its own under the token t1, polls, and   *)
(* takes results from the head of the results FIFOs or by token.  The      *)
(* slave answers the bursts in the order it accepted them.                 *)
(***************************************************************************)
TakeInit ==
    /\ Construct({2}, {ID_WIDTH})
    /\ task = [w \in Workers |->
                 [pc |-> "start", address |-> w * 4096,
                  data |-> MkData(1, 16 * w), size |-> SizeNone,
                  token |-> None, wret |-> NoValue, rret |-> NoValue,
                  woken |-> FALSE]]

TakeNext ==
    \/ \E w \in Workers : worker_write(w)
    \/ \E w \in Workers : worker_write_return(w)
    \/ \E w \in Workers : worker_read(w)
    \/ \E w \in Workers : worker_read_return(w)
    \/ \E t \in Tokens : init_write(0, MkData(1, 1), SizeNone, t)
    \/ \E t \in Tokens \cup {None} : get_write_resp(t)
    \/ \E t \in Tokens \cup {None} : get_read_data(t)
    \/ \E t \in Tokens \cup {None} : write_resp_ready(t)
    \/ \E t \in Tokens \cup {None} : read_data_ready(t)
    \/ process_write
    \/ aw_drive_done
    \/ process_write_resp
    \/ process_read
    \/ ar_drive_done
    \/ process_read_resp
    \/ slave_write_burst
    \/ slave_send_b(1, "OKAY")
    \/ slave_read_burst

TakeSpec == TakeInit /\ [][TakeNext]_vars

\* every token a retrieval may be called with
TakeTokens ==
    Tokens \cup {None}
        \cup {ObjectToken(k, w) : k \in {"w", "r"}, w \in Workers}

\* a retrieval called with token t on the results q returned ret and left q2
Takes(q, q2, ret, t) ==
    LET M == IF t = None THEN {i \in 1..Len(q) : i = 1}
             ELSE {i \in 1..Len(q) : q[i].token = t}
    IN /\ M = {} => ret = NoValue /\ q2 = q
       /\ M # {} =>
             \E i \in M :
                /\ \A j \in M : i <= j
                /\ ret = <<q[i]>>
                /\ Len(q2) = Len(q) - 1
                /\ \A j \in 1..Len(q2) : q2[j] = IF j < i THEN q[j] ELSE q[j + 1]

TakeResult ==
    \A t \in TakeTokens :
       /\ Takes(write_if.write_resp_queue,
                GetWriteResp(write_if, t).e.write_resp_queue,
                GetWriteResp(write_if, t).ret, t)
       /\ Takes(read_if.read_data_queue,
                GetReadData(read_if, t).e.read_data_queue,
                GetReadData(read_if, t).ret, t)

\* a step in which the caller gets the truth value of a poll
PollStep ==
    /\ caller'.ret # caller.ret
    /\ caller'.ret # NoValue
    /\ "ready" \in DOMAIN caller'.ret[1]

\* C24: a retrieval without token takes the result at the head of the
\* results FIFO; a retrieval with a token takes the result of that token
\* and leaves the others in their order; either returns nothing and takes
\* nothing when no result matches; a poll changes nothing in the master.
C24_TakeResult ==
    /\ []TakeResult
    /\ [][PollStep => UNCHANGED <<byte_width, id_width, wvars, rvars, slave,
                                  mem, task>>]_vars

\* the caller has taken the result of t1 from between those of the workers
\* 1 and 2, which are left in the FIFO in their order
C24_Witness ==
    /\ caller.ret # NoValue
    /\ "token" \in DOMAIN caller.ret[1]
    /\ caller.ret[1].token = "t1"
    /\ Len(write_if.write_resp_queue) = 2
    /\ write_if.write_resp_queue[1].addr = 4096
    /\ write_if.write_resp_queue[2].addr = 2 * 4096
    /\ wresp.pc = "wait_cmd"

(***************************************************************************)
(* The burst plan, checked under DataSpec: one request, written and then   *)
(* read back.  A plan is a burst list, <<id, beats>> per burst.            *)
(***************************************************************************)
ReadPlans ==
    {BurstsOf(p) : p \in {Frame(rproc), Frame(rresp)}
                         \cup Range(read_if.int_read_resp_command_queue)}
\* finished plans: those of the requests handed to a response task
FullPlans ==
    {BurstsOf(p) : p \in {Frame(wresp), Frame(rresp)}
                         \cup Range(write_if.int_write_resp_command_queue)
                         \cup Range(read_if.int_read_resp_command_queue)}
                \ {<<>>}

TotalBeats ==
    (Len(task.data) + (task.address % ReqBytes) + ReqBytes - 1) \div ReqBytes
\* where the j-th burst of plan bl starts if the bursts are contiguous from
\* aligned_addr, and the beats the greedy rule gives it there
PlanAddr(bl, j) == ReqBase + BeatsBefore(bl, j) * ReqBytes
PlanBeats(bl, j) ==
    (Min(Min(TotalBeats - BeatsBefore(bl, j), 256) * ReqBytes,
         4096 - (PlanAddr(bl, j) % 4096)) + ReqBytes - 1) \div ReqBytes
\* the burst with this id, address and length is the j-th of plan bl
Planned(bl, id, addr, len) ==
    \E j \in 1..Len(bl) :
       /\ bl[j][1] = id
       /\ addr = PlanAddr(bl, j)
       /\ len + 1 = bl[j][2]

\* C25: the bursts of a request are contiguous from aligned_addr, each has
\* the beats of the greedy rule (at most 256, up to the next 4 KiB
\* boundary), and together they have total_beats beats.
C25_PlanShape ==
    /\ \A bl \in WritePlans \cup ReadPlans :
          \A j \in 1..Len(bl) : bl[j][2] = PlanBeats(bl, j) /\ bl[j][2] >= 1
    /\ \A bl \in FullPlans : BeatsBefore(bl, Len(bl) + 1) = TotalBeats
    /\ \A aw \in IssuedAW :
          \E bl \in WritePlans : Planned(bl, aw.awid, aw.awaddr, aw.awlen)
    /\ \A ar \in IssuedAR :
          \E bl \in ReadPlans : Planned(bl, ar.arid, ar.araddr, ar.arlen)

\* a request of 260 narrow beats across a 4 KiB boundary has been issued
\* whole: a first burst up to the boundary, then one of 256 beats, then the
\* rest
C25_Witness ==
    /\ \E bl \in FullPlans : Len(bl) = 3 /\ bl[2][2] = 256
    /\ Unaligned
    /\ IssuedAR # {}

(***************************************************************************)
(* PlanSpec: the request of DataSpec, submitted to both engines of a new   *)
(* master (each has its own pool of IDs, lines 58 and 334), against a      *)
(* slave that accepts the address transactions and answers none: slave.awq *)
(* and slave.arq are the sequences of the AWs and ARs issued.              *)
(***************************************************************************)
PlanNext ==
    \/ init_write(task.address, task.data, task.size, None)
    \/ init_read(task.address, Len(task.data), task.size, None)
    \/ process_write
    \/ aw_drive_done
    \/ process_read
    \/ ar_drive_done

PlanSpec == InitData /\ [][PlanNext]_vars

\* burst descriptors <<id, address, beats, size>>
AWDesc(aw) == <<aw.awid, aw.awaddr, aw.awlen + 1, aw.awsize>>
ARDesc(ar) == <<ar.arid, ar.araddr, ar.arlen + 1, ar.arsize>>

\* C26: for the same request and the same initial pool of IDs the read
\* engine and the write engine issue the same sequence of bursts (id,
\* address, beats, size) and hand the same burst list to their response
\* tasks.
C26_SamePlan ==
    /\ \A i \in 1..Min(Len(slave.awq), Len(slave.arq)) :
          AWDesc(slave.awq[i]) = ARDesc(slave.arq[i])
    /\ \A i \in 1..Min(Len(write_if.int_write_resp_command_queue),
                       Len(read_if.int_read_resp_command_queue)) :
          LET w == write_if.int_write_resp_command_queue[i]
              r == read_if.int_read_resp_command_queue[i]
          IN w.burst_list = r.burst_list /\ w.cycles = r.cycles
                /\ w.size = r.size
    /\ (rproc.pc = "wait_cmd" /\ wproc.pc = "wait_cmd"
        /\ Len(write_if.int_write_resp_command_queue)
              = Len(read_if.int_read_resp_command_queue))
          => Len(slave.awq) = Len(slave.arq)

\* both engines have issued a request of three bursts whole: up to the
\* 4 KiB boundary, 256 beats, the rest
C26_Witness ==
    /\ Len(slave.awq) = 3 /\ Len(slave.arq) = 3
    /\ slave.arq[2].arlen = 255
    /\ Len(write_if.int_write_resp_command_queue) = 1
    /\ Len(read_if.int_read_resp_command_queue) = 1
    /\ Len(read_if.int_read_resp_command_queue[1].burst_list) = 3

\* beats of the first i write bursts the slave has accepted
RECURSIVE AcceptedBeats(_)
AcceptedBeats(i) ==
    IF i = 0 THEN 0 ELSE slave.awq[i].awlen + 1 + AcceptedBeats(i - 1)
\* bursts and beats of the first n requests handed to the write response
\* task
RECURSIVE HandedBursts(_)
HandedBursts(n) ==
    IF n = 0 THEN 0
    ELSE Len(write_if.int_write_resp_command_queue[n].burst_list)
            + HandedBursts(n - 1)
RECURSIVE HandedBeats(_)
HandedBeats(n) ==
    IF n = 0 THEN 0
    ELSE write_if.int_write_resp_command_queue[n].cycles + HandedBeats(n - 1)

\* C27, under PlanSpec, where w_channel keeps every W beat queued: no W
\* beat of a burst is queued before the burst's AW is accepted; when the
\* next AW is driven, exactly awlen + 1 beats are queued for each burst
\* accepted; the beats carry the data in order; wlast is set on the last
\* beat of each burst and on no other; a request is handed to the response
\* task when all its bursts are accepted and all its beats queued.
C27_BurstOrder ==
    /\ Len(w_channel) <= AcceptedBeats(Len(slave.awq))
    /\ aw_channel # <<>> => Len(w_channel) = AcceptedBeats(Len(slave.awq))
    /\ \A j \in 1..Len(w_channel) :
          /\ w_channel[j].wlast <=>
                \E i \in 1..Len(slave.awq) : AcceptedBeats(i) = j
          /\ \A lane \in 0..(byte_width - 1) :
                StrbBit(w_channel[j], lane) =>
                   DataLane(w_channel[j], lane) =
                      task.data[BeatWord((j - 1) % ReqCycles) + lane
                                   - FirstByte + 1]
    /\ LET n == Len(write_if.int_write_resp_command_queue) IN
       /\ HandedBursts(n) <= Len(slave.awq)
       /\ HandedBeats(n) <= Len(w_channel)
       /\ AcceptedBeats(HandedBursts(n)) = HandedBeats(n)

\* the second AW of a request is being driven: the first burst is accepted,
\* its beats are queued, the last of them with wlast, and nothing is handed
\* to the response task
C27_Witness ==
    /\ aw_channel # <<>>
    /\ Len(slave.awq) = 1 /\ slave.awq[1].awlen >= 1
    /\ Len(w_channel) = slave.awq[1].awlen + 1
    /\ w_channel[Len(w_channel)].wlast
    /\ write_if.int_write_resp_command_queue = <<>>

\* the blocking call of worker w is suspended in wait_for_token and the
\* token of its request is known to the engine no more
Orphaned(w) ==
    \/ task[w].pc = "write_wait" /\ task[w].token \notin write_if.active_tokens
    \/ task[w].pc = "read_wait" /\ task[w].token \notin read_if.active_tokens

\* C28: whatever the other callers take from the results FIFOs, without a
\* token or with a token of their own, a blocking call does not fail, its
\* request stays known to the engine until the call returns, and it returns
\* the result of its own request: the length and the response of its
\* write, the bytes of its read.
C28_OwnResult ==
    \A w \in Workers :
       /\ task[w].pc # "dead"
       /\ ~Orphaned(w)
       /\ task[w].wret # NoValue => task[w].wret = <<Len(task[w].data), "OKAY">>
       /\ task[w].rret # NoValue => task[w].rret = <<task[w].data, "OKAY">>

\* worker w is suspended in wait_for_token and the token of its request is
\* in the completed set
Completed(w) ==
    \/ task[w].pc = "write_wait" /\ task[w].token \in write_if.write_resp_set
    \/ task[w].pc = "read_wait" /\ task[w].token \in read_if.read_data_set
\* worker w will be resumed: the event it waits on is fired, or was fired
\* and cleared by another waiter after w had been scheduled
Scheduled(w) ==
    \/ task[w].woken
    \/ task[w].pc = "write_wait" /\ write_if.write_resp_sync
    \/ task[w].pc = "read_wait" /\ read_if.read_data_sync
\* the result, the mark in the completed set and the in-flight count change
\* together
PublishedTogether ==
    /\ write_if.write_resp_set = QueueTokens(write_if.write_resp_queue)
    /\ read_if.read_data_set = QueueTokens(read_if.read_data_queue)
    /\ write_if.in_flight_operations = UnpublishedWrite
    /\ read_if.in_flight_operations = UnpublishedRead

\* C29, under ReorderSpec with its three waiters: a waiter whose token is
\* in the completed set is scheduled for resumption, whoever cleared the
\* event in between; when it leaves wait_for_token it has found its token
\* and taken its result; outside the steps of the response task the result
\* entries, the completed set and the in-flight count agree.
C29_NoLostWakeup ==
    /\ [](\A w \in DOMAIN task : Completed(w) => Scheduled(w))
    /\ []PublishedTogether
    /\ [][\A w \in DOMAIN task :
             /\ (task[w].pc = "write_wait" /\ task'[w].pc # "write_wait")
                   => Completed(w) /\ task'[w].wret # NoValue
             /\ (task[w].pc = "read_wait" /\ task'[w].pc # "read_wait")
                   => Completed(w) /\ task'[w].rret # NoValue]_vars

\* a result is published and another caller of wait_for_token has cleared
\* the event since; the waiter of that result has not run yet and is still
\* scheduled
C29_Witness ==
    /\ ~write_if.write_resp_sync
    /\ \E w \in DOMAIN task :
          /\ task[w].pc = "write_wait" /\ task[w].woken
          /\ task[w].token \in write_if.write_resp_set

(***************************************************************************)
(* SpurSpec: the master of Spec (pools of 2 IDs) against a slave that      *)
(* answers bursts of different IDs in any order and, beside the answers,   *)
(* sends response beats nobody asked for, with IDs the response tasks have *)
(* seen before (an unseen ID ends the task with the KeyError of line 282   *)
(* or 533).  Such a beat is sent while fewer than MaxStale beats wait in   *)
(* the response channel and the FIFOs behind it.                           *)
(***************************************************************************)
MaxStale == 1

RECURSIVE Buffered(_, _)
Buffered(fifos, ids) ==
    IF ids = {} THEN 0
    ELSE LET id == CHOOSE x \in ids : TRUE
         IN Len(fifos[id]) + Buffered(fifos, ids \ {id})

slave_spurious_b(id) ==
    /\ id \in DOMAIN write_if.int_write_resp_queue_list
    /\ Len(b_channel)
          + Buffered(write_if.int_write_resp_queue_list,
                     DOMAIN write_if.int_write_resp_queue_list) < MaxStale
    /\ b_channel' = Append(b_channel, [bid |-> id, bresp |-> "OKAY"])
    /\ UNCHANGED <<byte_width, id_width, write_if, wproc, wresp, aw_channel,
                   w_channel, rvars, slave, mem, caller, task>>

slave_spurious_r(id, last) ==
    /\ id \in DOMAIN read_if.int_read_resp_queue_list
    /\ Len(r_channel)
          + Buffered(read_if.int_read_resp_queue_list,
                     DOMAIN read_if.int_read_resp_queue_list) < MaxStale
    /\ r_channel' = Append(r_channel, [rid |-> id, rdata |-> 0,
                                       rresp |-> "OKAY", rlast |-> last])
    /\ UNCHANGED <<byte_width, id_width, wvars, read_if, rproc, rresp,
                   ar_channel, slave, mem, caller, task>>

\* one burst of one beat, two bursts of one beat
SpurReqs == {<<0, 1, SizeNone>>, <<4095, 2, 0>>}

SpurNext ==
    \/ \E q \in SpurReqs : init_write(q[1], MkData(q[2], 1), q[3], None)
    \/ \E q \in SpurReqs : init_read(q[1], q[2], q[3], None)
    \/ process_write
    \/ aw_drive_done
    \/ process_write_resp
    \/ process_read
    \/ ar_drive_done
    \/ process_read_resp
    \/ slave_write_burst
    \/ \E i \in 1..Len(slave.bq) : slave_send_b(i, "OKAY")
    \/ \E i \in 1..Len(slave.arq) : slave_send_r(i, "OKAY")
    \/ \E id \in AllIds : slave_spurious_b(id)
    \/ \E id \in AllIds, last \in BOOLEAN : slave_spurious_r(id, last)

SpurSpec == Init /\ [][SpurNext]_vars

\* the task p has ended with the exception exc
EndedWith(p, exc) == p.pc = "dead" /\ p.exc = exc
DistinctIds(bl) == \A i, j \in 1..Len(bl) : bl[i][1] = bl[j][1] => i = j

\* C30: whatever beats the slave sends, no response task finds the ID it
\* releases in the pool already ("Unexpected burst ID", lines 296-297 and
\* 564-565), no issue task pops from an empty pool, the pool holds no ID
\* twice, and no burst list holds an ID twice.
C30_NoDoubleReturn ==
    /\ ~EndedWith(wresp, "Unexpected burst ID")
    /\ ~EndedWith(rresp, "Unexpected burst ID")
    /\ ~EndedWith(wproc, "IndexError")
    /\ ~EndedWith(rproc, "IndexError")
    /\ NoDuplicate(write_if.id_queue) /\ NoDuplicate(read_if.id_queue)
    /\ \A bl \in WritePlans \cup ReadPlans : DistinctIds(bl)

\* a beat nobody asked for has been taken as the answer of a write burst:
\* the ID of the burst is back in the pool while the slave still owes the
\* B beat of that burst
C30_Witness ==
    /\ \E i \in 1..Len(slave.bq), j \in 1..Len(write_if.id_queue) :
          slave.bq[i] = write_if.id_queue[j]
    /\ wresp.pc # "dead"

====
